---- MODULE Spec2Model ----
(***************************************************************************)
(* One call of render_stl_to_png_perspective (tools/library-builder/       *)
(* stl_to_png.py): load, optional Z-rotation, bounds, camera, projection,  *)
(* image sizing, NDC-to-pixel mapping, the z-buffer loop, and the save.    *)
(*                                                                         *)
(* Floating point numbers are modelled by exact rationals <<n, d>>, d > 0, *)
(* in lowest terms; <<0, 0>> stands for NaN and <<1, 0>> for +infinity.    *)
(* So that every quantity of the camera is rational, the inputs are meshes *)
(* whose bounding-box diagonal is an integer, fov = 60 (sin(fov/2) = 1/2), *)
(* camera_tilt in {0, 90} and rotations that are multiples of 90.  NDC     *)
(* coordinates are kept in units of the focal length 1/tan(fov/2), a       *)
(* factor common to every vertex that cancels in the aspect ratio and in   *)
(* the pixel mapping.  The z-buffer loop works in float32: a weight or a    *)
(* depth is its exact value with a rounding error of unknown sign, which   *)
(* decides the tests w >= 0 and z_interp < depth_buf where the exact       *)
(* values are on the boundary (see the z-buffer section).                  *)
(***************************************************************************)
EXTENDS Integers, Sequences, FiniteSets, TLC

\* ------------------------------------------------------------ bounds ----
MaxFaces == 2

\* The most .stl files a batch directory holds.
MaxFiles == 3

\* The longest arbitrary string given to _parse_time_str.
MaxLen == 4

\* The most metadata lines a gcode file holds.
MaxLines == 3

\* Items in one index.json.
MaxItems == 2

\* Objects in one 3MF file.
MaxObjects == 2

\* Temporary files one call finds it cannot unlink.
MaxStuck == 1

\* --------------------------------------------------------- arithmetic ----
Abs(n) == IF n < 0 THEN -n ELSE n

Sgn(n) == IF n < 0 THEN -1 ELSE IF n > 0 THEN 1 ELSE 0

RECURSIVE GCD(_, _)
GCD(a, b) == IF b = 0 THEN a ELSE GCD(b, a % b)

\* n/d divided through by g, the denominator made positive.
Reduce(n, d, g) == IF d < 0 THEN <<-(n \div g), -(d \div g)>> ELSE <<n \div g, d \div g>>

\* The rational n/d (d # 0) in lowest terms with a positive denominator.
QN(n, d) == Reduce(n, d, GCD(Abs(n), Abs(d)))

QI(n) == <<n, 1>>

NaN == <<0, 0>>

Inf == <<1, 0>>

IsNaN(q) == q = NaN

\* a + b over the common denominator l.
AddOver(a, b, l) == QN(a[1] * (l \div a[2]) + b[1] * (l \div b[2]), l)

QAdd(a, b) ==
    IF a[1] = 0 THEN b
    ELSE IF b[1] = 0 THEN a
    ELSE IF a[2] = b[2] THEN QN(a[1] + b[1], a[2])
    ELSE AddOver(a, b, (a[2] \div GCD(a[2], b[2])) * b[2])

QNeg(a) == <<-a[1], a[2]>>

QSub(a, b) == QAdd(a, QNeg(b))

\* a * b with the common factors g1 of a[1], b[2] and g2 of b[1], a[2] removed.
MulCancel(a, b, g1, g2) ==
    <<(a[1] \div g1) * (b[1] \div g2), (a[2] \div g2) * (b[2] \div g1)>>

QMul(a, b) ==
    IF a[1] = 0 \/ b[1] = 0 THEN <<0, 1>>
    ELSE IF a = <<1, 1>> THEN b
    ELSE IF b = <<1, 1>> THEN a
    ELSE MulCancel(a, b, GCD(Abs(a[1]), b[2]), GCD(Abs(b[1]), a[2]))

\* a / b; numpy gives NaN for 0/0 (a RuntimeWarning, no exception).
QDiv(a, b) ==
    IF b[1] = 0 THEN NaN
    ELSE QMul(a, IF b[1] < 0 THEN <<-b[2], -b[1]>> ELSE <<b[2], b[1]>>)

QLess(a, b) == a[1] * b[2] < b[1] * a[2]

QLeq(a, b) == a[1] * b[2] <= b[1] * a[2]

QAbs(a) == <<Abs(a[1]), a[2]>>

QFloor(a) == a[1] \div a[2]

QCeil(a) == -((-a[1]) \div a[2])

\* Python's int(x): truncation toward zero.
QTrunc(a) == IF a[1] >= 0 THEN a[1] \div a[2] ELSE -((-a[1]) \div a[2])

\* f or f + 1, whichever is nearer to a; the even one on a tie.
RoundFrom(a, f) ==
    IF 2 * (a[1] - f * a[2]) < a[2] THEN f
    ELSE IF 2 * (a[1] - f * a[2]) > a[2] THEN f + 1
    ELSE IF f % 2 = 0 THEN f ELSE f + 1

\* Python's round(x) on a float: round half to even.
RoundHalfEven(a) == RoundFrom(a, QFloor(a))

Max2(a, b) == IF a >= b THEN a ELSE b

Min2(a, b) == IF a <= b THEN a ELSE b

SetMax(S) == CHOOSE m \in S : \A x \in S : x <= m

SetMin(S) == CHOOSE m \in S : \A x \in S : m <= x

QSetMax(S) == CHOOSE m \in S : \A x \in S : QLeq(x, m)

QSetMin(S) == CHOOSE m \in S : \A x \in S : QLeq(m, x)

\* Integer square root of a perfect square.
Isqrt(n) == CHOOSE r \in 0..n : r * r = n

IsSquare(n) == \E r \in 0..n : r * r = n

\* ------------------------------------------------------------ vectors ----
Cross(a, b) ==
    << a[2] * b[3] - a[3] * b[2],
       a[3] * b[1] - a[1] * b[3],
       a[1] * b[2] - a[2] * b[1] >>

Dot(a, b) == a[1] * b[1] + a[2] * b[2] + a[3] * b[3]

VSub(a, b) == <<a[1] - b[1], a[2] - b[2], a[3] - b[3]>>

\* Dot product of a rational vector with an integer vector.
QDot(a, b) ==
    QAdd(QAdd(QMul(a[1], QI(b[1])), QMul(a[2], QI(b[2]))), QMul(a[3], QI(b[3])))

\* ------------------------------------------------------------- inputs ----
\* Faces of a 4 x 4 x 2 box (diagonal 6) and of a flat 3 x 4 sheet at z = 10
\* (diagonal 5), each <<v0, v1, v2>> with integer vertices in millimetres:
\* top, bottom, front wall, a small top face at the centre, a zero-area face
\* along the box diagonal, and the sheet with either winding.
FaceT == << <<0, 0, 2>>, <<4, 0, 2>>, <<0, 4, 2>> >>

FaceB == << <<0, 0, 0>>, <<0, 4, 0>>, <<4, 0, 0>> >>

FaceWf == << <<0, 0, 0>>, <<4, 0, 0>>, <<4, 0, 2>> >>

FaceTiny == << <<2, 2, 2>>, <<3, 2, 2>>, <<2, 3, 2>> >>

FaceDg == << <<0, 0, 0>>, <<4, 4, 2>>, <<4, 4, 2>> >>

FaceFa == << <<0, 0, 10>>, <<3, 0, 10>>, <<0, 4, 10>> >>

FaceFb == << <<0, 0, 10>>, <<0, 4, 10>>, <<3, 0, 10>> >>

FaceCatalogue == {FaceT, FaceB, FaceWf, FaceTiny, FaceDg, FaceFa, FaceFb}

Rotations == {0, 90, 180, 270, 450}

Tilts == {0, 90}

MaxDimensions == {1, 3, 4}

\* All vertex coordinates of a face list along axis k.
Coords(vs, k) == {vs[f][j][k] : f \in 1..Len(vs), j \in 1..3}

\* numpy-stl update_min / update_max: the componentwise extremes.
ComputeMin(vs) == <<SetMin(Coords(vs, 1)), SetMin(Coords(vs, 2)), SetMin(Coords(vs, 3))>>

ComputeMax(vs) == <<SetMax(Coords(vs, 1)), SetMax(Coords(vs, 2)), SetMax(Coords(vs, 3))>>

ExtentNormSq(vs) == Dot(VSub(ComputeMax(vs), ComputeMin(vs)), VSub(ComputeMax(vs), ComputeMin(vs)))

\* No face is stored twice.
Distinct(m) == \A a, b \in DOMAIN m : a # b => m[a] # m[b]

\* The meshes of 1..MaxFaces distinct faces, in every order, whose bounding-box
\* diagonal is a positive integer.
Meshes ==
    {m \in UNION {[1..n -> FaceCatalogue] : n \in 1..MaxFaces} :
        Distinct(m) /\ ExtentNormSq(m) > 0 /\ IsSquare(ExtentNormSq(m))}

\* -------------------------------------------------------------- state ----
VARIABLES
    pc,             \* position in render_stl_to_png_perspective
    stl_file,       \* the input path: "ok", "missing" or "corrupt"
    mesh0,          \* the faces stored in the input file
    quiet, rotation, camera_tilt, max_dimension,
    outfile0,       \* the file at output_path before the call
    outfile,        \* the file at output_path now
    vectors,        \* stl_mesh.vectors
    normals,        \* stl_mesh.normals
    cache,          \* stl_mesh._min / _max: <<>> when unset, else <<min, max>>
    min_b, max_b,   \* the bounds the camera is built from
    face_rgb,       \* flat colour per face
    x_ndc, y_ndc, z_view,
    W, H,
    px, py,
    color_buf, depth_buf,
    round,          \* round[k]: the float32 rounding errors of pass k of the loop
    i,              \* loop index, 1-based
    exc,            \* the exception in flight
    result          \* "none", "True", "False", or "raised" (exception escaped)

vars == <<pc, stl_file, mesh0, quiet, rotation, camera_tilt, max_dimension,
          outfile0, outfile, vectors, normals, cache, min_b, max_b, face_rgb,
          x_ndc, y_ndc, z_view, W, H, px, py, color_buf, depth_buf, round, i, exc,
          result>>

inputVars == <<stl_file, mesh0, quiet, rotation, camera_tilt, max_dimension, outfile0>>

meshVars == <<vectors, normals, cache>>

projVars == <<min_b, max_b, face_rgb, x_ndc, y_ndc, z_view>>

imageVars == <<W, H, px, py>>

bufVars == <<color_buf, depth_buf, round, i>>

\* No render call of the single-call specification is under way.
RenderIdle ==
    /\ pc = "idle"
    /\ stl_file = "ok" /\ mesh0 = <<>> /\ quiet = TRUE /\ rotation = 0
    /\ camera_tilt = 0 /\ max_dimension = 1
    /\ outfile0 = "absent" /\ outfile = "absent"
    /\ vectors = <<>> /\ normals = <<>> /\ cache = <<>>
    /\ min_b = <<>> /\ max_b = <<>> /\ face_rgb = <<>>
    /\ x_ndc = <<>> /\ y_ndc = <<>> /\ z_view = <<>>
    /\ W = 0 /\ H = 0 /\ px = <<>> /\ py = <<>>
    /\ color_buf = <<>> /\ depth_buf = <<>> /\ round = <<>> /\ i = 0
    /\ exc = "none"
    /\ result = "none"

\* Two render calls running at once (threads of one interpreter).
VARIABLES
    args,           \* args[c]: the arguments of call c
    call,           \* call[c]: the local variables of call c
    heap,           \* the arrays allocated so far, by handle
    saved,          \* saved[c]: the image at the output path of call c
    turns           \* <<call that stepped last, changes of call so far>>

concVars == <<args, call, heap, saved, turns>>

ConcIdle == args = <<>> /\ call = <<>> /\ heap = <<>> /\ saved = <<>> /\ turns = <<>>

\* Batch mode of stl_to_png.main.
VARIABLES
    glob_result,    \* the .stl files of the directory, in the order glob gives them
    stl_files,      \* the list the loop runs over
    main_pc,        \* position in main
    idx,            \* position of the loop in stl_files, 1-based
    rendered,       \* the render calls made so far: <<file, success>> each
    successes, failures,
    exit_code       \* -1 while running, else the status given to sys.exit

batchVars == <<glob_result, stl_files, main_pc, idx, rendered, successes, failures, exit_code>>

BatchIdle ==
    /\ glob_result = <<>> /\ stl_files = <<>> /\ main_pc = "idle" /\ idx = 0
    /\ rendered = <<>> /\ successes = 0 /\ failures = 0 /\ exit_code = -1

\* One call of slicer._parse_time_str.
VARIABLES
    time_parts,     \* the components the argument was written from, <<>> if none
    time_str,       \* the argument s, a sequence of characters
    parsed          \* "pending", else the value returned: <<>> for None, <<n>> for n

parseVars == <<time_parts, time_str, parsed>>

ParseIdle == time_parts = <<>> /\ time_str = <<>> /\ parsed = "idle"

\* slicer.cleanup_stale_temp_files and slicer.slice_model, and the files they touch.
VARIABLES
    sl_pc,          \* position: "startup", "checks", "mkdir", "run", "scan", "finally", "done"
    config_exists,  \* os.path.exists(config_path)
    stl_exists,     \* os.path.exists(stl_path)
    on_path,        \* shutil.which(ORCA_BINARY) is not None
    tmp_writable,   \* the process may create and remove entries under /tmp
    temp_dir,       \* TEMP_DIR: "absent", "dir" or "notdir" (something that is no directory)
    stale,          \* the files in TEMP_DIR left by earlier runs
    cleaned,        \* "no", or how cleanup_stale_temp_files ended: "returned", "raised"
    removed,        \* the files shutil.rmtree deleted
    temp_gcode,     \* the file at temp_gcode: "absent", "readable", "unreadable"
    gcode,          \* the metadata lines of that file
    returncode,     \* -1 before the slicer ran, else 0 or 1
    unlink,         \* how os.unlink(temp_gcode) ended: "none" (not called), "ok", "failed"
    sl_result       \* <<"pending">>, <<"None">>, <<"raised">> or <<"dict", grams, seconds>>

sliceInputs == <<config_exists, stl_exists, on_path, tmp_writable>>

sliceVars == <<sl_pc, sliceInputs, temp_dir, stale, cleaned, removed, temp_gcode, gcode, returncode, unlink, sl_result>>

SliceIdle ==
    /\ sl_pc = "idle"
    /\ config_exists = FALSE /\ stl_exists = FALSE /\ on_path = FALSE /\ tmp_writable = FALSE
    /\ temp_dir = "absent" /\ stale = {} /\ cleaned = "no" /\ removed = {}
    /\ temp_gcode = "absent" /\ gcode = <<>> /\ returncode = -1 /\ unlink = "none"
    /\ sl_result = <<"pending">>

\* One call of build_library.update_library_item.
VARIABLES
    lib_pc,         \* position: "start", "imageUrl", "perspectiveImageUrl", "rotations", "done";
                    \* in generate_all_perspectives "gp_start", "gp_persp", "gp_rot", "gp_save", "gp_done"
    force,          \* the force argument
    item_stl,       \* the item's stlFile: "" (not set), or a file name
    item,           \* the item's imageUrl and perspectiveImageUrl, "" when not set
    item0,          \* item as it was passed
    index_file,     \* the item as index.json holds it (generate_all_perspectives)
    disk,           \* the files of library_dir
    attempts,       \* the output names the render functions were called with
    modified,       \* the local variable
    angle_at,       \* the index of the rotation loop
    lib_result      \* "pending", else the value returned: "True" or "False"

libVars == <<lib_pc, force, item_stl, item, item0, index_file, disk, attempts, modified, angle_at, lib_result>>

LibIdle ==
    /\ lib_pc = "idle" /\ force = FALSE /\ item_stl = ""
    /\ item = <<>> /\ item0 = <<>> /\ index_file = <<>> /\ disk = {} /\ attempts = {}
    /\ modified = FALSE /\ angle_at = 0 /\ lib_result = "pending"

\* The camera of render_stl_to_png_perspective at tilts between 0 and 90.
VARIABLES
    cam_at,         \* position: "place", "worldup", "basis", "project", "done"
    cam_sc,         \* <<sin, cos>> of the camera tilt
    cam_box,        \* <<min, max>> of the mesh bounds
    cam_eye,        \* cam_pos
    cam_forward,    \* forward
    cam_world_up,   \* world_up
    cam_right,      \* right
    cam_upv,        \* cam_up
    probe,          \* two mesh points of equal y and z, the second of larger x
    probe_ndc       \* <<x_ndc, y_ndc>> of the two points

camVars == <<cam_at, cam_sc, cam_box, cam_eye, cam_forward, cam_world_up, cam_right,
             cam_upv, probe, probe_ndc>>

CamIdle ==
    /\ cam_at = "idle" /\ cam_sc = <<>> /\ cam_box = <<>> /\ cam_eye = <<>>
    /\ cam_forward = <<>> /\ cam_world_up = <<>> /\ cam_right = <<>>
    /\ cam_upv = <<>> /\ probe = <<>> /\ probe_ndc = <<>>

\* One call of build_library.process_stl_file or process_3mf_file.
VARIABLES
    ps_pc,              \* position in the function
    skip_existing_png,  \* the arguments
    render_both,
    user_rotation,      \* rotation != 0
    usable,             \* the file is not empty and its dimensions are known
    geometry,           \* trimesh loaded the geometry
    needs_rotation,     \* the local variable
    png0,               \* the five output files before the call: "absent" or "old"
    png,                \* the five output files now: "absent", "old" or "new"
    invoked,            \* the output names the renderers were called with
    temp_stl_path,      \* 0 for None, else the temporary file it names
    temps,              \* the temporary files on disk
    unremovable,        \* the temporary files on which os.unlink failed
    unclosed,           \* the temporary files whose close() raised
    perspective_filename, \* "None" or "set"
    rot_at,             \* the index of the rotation loop
    objects,            \* process_3mf_file: the objects still to do
    ps_result           \* "pending", "None", "metadata" or "list"

psArgs == <<skip_existing_png, render_both, user_rotation, usable, geometry, png0>>

psTemp == <<temp_stl_path, temps, unremovable, unclosed>>

psVars == <<ps_pc, psArgs, needs_rotation, png, invoked, psTemp, perspective_filename,
            rot_at, objects, ps_result>>

PsIdle ==
    /\ ps_pc = "idle" /\ skip_existing_png = FALSE /\ render_both = FALSE
    /\ user_rotation = FALSE /\ usable = FALSE /\ geometry = FALSE
    /\ needs_rotation = FALSE /\ png0 = <<>> /\ png = <<>> /\ invoked = {}
    /\ temp_stl_path = 0 /\ temps = {} /\ unremovable = {} /\ unclosed = {}
    /\ perspective_filename = "None" /\ rot_at = 0 /\ objects = 0
    /\ ps_result = "pending"

\* Two runs of build_library.update_library over one library directory.
VARIABLES
    upd_pc,         \* "load", "item", "call", "returned", or "idle"
    run,            \* "first" or "second"
    upd_fn,         \* the function called: "update_library" or "process_library"
    has_index,      \* index.json exists
    index,          \* the items of index.json: <<stlFile, fields>> each
    library,        \* the items as loaded and updated in memory
    upd_at,         \* position of the loop over the items
    index_modified,
    renders,        \* the images each run called a renderer for
    failed,         \* a render has left its image missing
    rewritten,      \* the runs that wrote index.json
    upd_results     \* the values returned so far
updVars == <<upd_pc, run, upd_fn, has_index, index, library, upd_at, index_modified, renders, failed, rewritten, upd_results>>

UpdIdle ==
    /\ upd_pc = "idle" /\ run = "first" /\ upd_fn = "" /\ has_index = FALSE /\ index = <<>>
    /\ library = <<>> /\ upd_at = 0 /\ index_modified = FALSE /\ renders = <<>>
    /\ failed = FALSE /\ rewritten = {} /\ upd_results = <<>>

\* Two concurrent calls of slicer.slice_model.
VARIABLES
    cs_pc,          \* per call: "checks", "name", "run", "wait", "read", "finally", "done"
    cs_name,        \* per call: the uuid of its temp_gcode, "" before line 66
    cs_files,       \* per uuid: "absent", or the call whose OrcaSlicer wrote the file
    cs_writes,      \* per call: the files its OrcaSlicer wrote
    cs_reads,       \* per call: the files it opened
    cs_unlinks,     \* per call: the files it unlinked
    cs_content,     \* per call: the call that wrote what it read, "" if nothing read
    cs_result       \* per call: "pending", "None" or "dict"
csVars == <<cs_pc, cs_name, cs_files, cs_writes, cs_reads, cs_unlinks, cs_content, cs_result>>

CsIdle ==
    /\ cs_pc = <<>> /\ cs_name = <<>> /\ cs_files = <<>> /\ cs_writes = <<>>
    /\ cs_reads = <<>> /\ cs_unlinks = <<>> /\ cs_content = <<>> /\ cs_result = <<>>

\* What a single render call leaves alone.
elsewhere == <<concVars, batchVars, parseVars, sliceVars, libVars, camVars, psVars, updVars, csVars>>

\* What the two concurrent calls leave alone.
besidesConc == <<vars, batchVars, parseVars, sliceVars, libVars, camVars, psVars, updVars, csVars>>

\* What batch mode leaves alone.
besidesBatch == <<vars, concVars, parseVars, sliceVars, libVars, camVars, psVars, updVars, csVars>>

\* What _parse_time_str leaves alone.
besidesParse == <<vars, concVars, batchVars, sliceVars, libVars, camVars, psVars, updVars, csVars>>

\* What the slicer leaves alone.
besidesSlice == <<vars, concVars, batchVars, parseVars, libVars, camVars, psVars, updVars, csVars>>

\* What update_library_item leaves alone.
besidesLib == <<vars, concVars, batchVars, parseVars, sliceVars, camVars, psVars, updVars, csVars>>

\* What the camera leaves alone.
besidesCam == <<vars, concVars, batchVars, parseVars, sliceVars, libVars, psVars, updVars, csVars>>

\* What process_stl_file and process_3mf_file leave alone.
besidesPs == <<vars, concVars, batchVars, parseVars, sliceVars, libVars, camVars, updVars, csVars>>

\* What a run of update_library leaves alone outside its item calls.
besidesUpd == <<vars, concVars, batchVars, parseVars, sliceVars, libVars, camVars, psVars, csVars>>

\* What update_library and its item calls leave alone.
besidesUpdLib == <<vars, concVars, batchVars, parseVars, sliceVars, camVars, psVars, csVars>>

\* What the concurrent slice_model calls leave alone.
besidesCs == <<vars, concVars, batchVars, parseVars, sliceVars, libVars, camVars, psVars, updVars>>

Init ==
    /\ ConcIdle /\ BatchIdle /\ ParseIdle /\ SliceIdle /\ LibIdle /\ CamIdle /\ PsIdle /\ UpdIdle /\ CsIdle
    /\ pc = "load"
    /\ stl_file \in {"ok", "missing", "corrupt"}
    /\ mesh0 \in Meshes
    /\ quiet \in BOOLEAN
    /\ rotation \in Rotations
    /\ camera_tilt \in Tilts
    /\ max_dimension \in MaxDimensions
    /\ outfile0 \in {"absent", "old"}
    /\ outfile = outfile0
    /\ vectors = <<>> /\ normals = <<>> /\ cache = <<>>
    /\ min_b = <<>> /\ max_b = <<>> /\ face_rgb = <<>>
    /\ x_ndc = <<>> /\ y_ndc = <<>> /\ z_view = <<>>
    /\ W = 0 /\ H = 0 /\ px = <<>> /\ py = <<>>
    /\ color_buf = <<>> /\ depth_buf = <<>> /\ round = <<>> /\ i = 0
    /\ exc = "none"
    /\ result = "none"

\* --------------------------------------------------------------- load ----
\* numpy-stl computes each face normal as (v1 - v0) x (v2 - v0) on load.
FaceNormal(f) == Cross(VSub(f[2], f[1]), VSub(f[3], f[1]))

\* A raise inside the try block: control goes to the except clauses.
Raise(e) == pc' = "except" /\ exc' = e

Load ==
    /\ pc = "load"
    /\ IF stl_file = "ok"
       THEN /\ vectors' = mesh0
            /\ normals' = [f \in 1..Len(mesh0) |-> FaceNormal(mesh0[f])]
            /\ pc' = "debug"
            /\ UNCHANGED exc
       ELSE /\ Raise(IF stl_file = "missing" THEN "FileNotFoundError" ELSE "Exception")
            /\ UNCHANGED <<vectors, normals>>
    /\ UNCHANGED <<elsewhere, inputVars, outfile, cache, projVars, imageVars, bufVars, result>>

\* stl_mesh.min_ / max_: computed and cached on first access.
Bounds(c, vs) == IF c = <<>> THEN <<ComputeMin(vs), ComputeMax(vs)>> ELSE c

DebugMeshInfo ==
    /\ pc = "debug"
    /\ cache' = IF quiet THEN cache ELSE Bounds(cache, vectors)
    /\ pc' = "rotate"
    /\ UNCHANGED <<elsewhere, inputVars, outfile, vectors, normals, projVars, imageVars, bufVars,
                   exc, result>>

\* ------------------------------------------------------------ rotation ----
\* <<cos, sin>> of the table; other angles use np.cos / np.sin and are not
\* among the inputs.
\* The table with the sines of 90 and 270 exchanged.
ExactRotationsSignSlip(key) ==
    CASE key = 0   -> <<1, 0>>
      [] key = 90  -> <<0, -1>>
      [] key = 180 -> <<-1, 0>>
      [] key = 270 -> <<0, 1>>

EXACT_ROTATIONS(key) ==
    CASE key = 0   -> <<1, 0>>
      [] key = 90  -> <<0, 1>>
      [] key = 180 -> <<-1, 0>>
      [] key = 270 -> <<0, -1>>

\* The rotation applied to the y and z columns (about the X axis).
RotateYZ(v, cs) ==
    <<v[1], cs[1] * v[2] - cs[2] * v[3], cs[2] * v[2] + cs[1] * v[3]>>

\* The rotation matrix with the sign of its upper-right entry lost.
RotateXYNoMinus(v, cs) ==
    <<cs[1] * v[1] + cs[2] * v[2], cs[2] * v[1] + cs[1] * v[2], v[3]>>

\* x' = cos * x - sin * y, y' = sin * x + cos * y, z' = z
RotateXY(v, cs) ==
    <<cs[1] * v[1] - cs[2] * v[2], cs[2] * v[1] + cs[1] * v[2], v[3]>>

RotateVectors(vs, r) ==
    [f \in 1..Len(vs) |-> [j \in 1..3 |-> RotateXY(vs[f][j], EXACT_ROTATIONS(r % 360))]]

RotateNormals(ns, r) ==
    [f \in 1..Len(ns) |-> RotateXY(ns[f], EXACT_ROTATIONS(r % 360))]

\* The vertices and normals after the block "if rotation != 0".
RotatedVectors(vs, r) == IF r # 0 THEN RotateVectors(vs, r) ELSE vs

RotatedNormals(ns, r) == IF r # 0 THEN RotateNormals(ns, r) ELSE ns

\* The cached bounds left in place after the rotation.
KeepCache(c) == c

\* delattr(stl_mesh, '_min'), delattr(stl_mesh, '_max')
Invalidate(c) == <<>>

Rotate ==
    /\ pc = "rotate"
    /\ vectors' = RotatedVectors(vectors, rotation)
    /\ normals' = RotatedNormals(normals, rotation)
    /\ cache' = IF rotation # 0 THEN Invalidate(cache) ELSE cache
    /\ pc' = "bounds"
    /\ UNCHANGED <<elsewhere, inputVars, outfile, projVars, imageVars, bufVars, exc, result>>

\* -------------------------------------------------- bounds and shading ----
\* brightness = 0.3 + 0.7 * clip(n . light, 0, 1) in thousandths, for the unit
\* normal of an axis-aligned or zero normal n; light = (-1/2, -1/2, sqrt(2)/2).
Brightness(n) ==
    IF n[1] = 0 /\ n[2] = 0 /\ n[3] > 0 THEN 795
    ELSE IF (n[1] < 0 /\ n[2] = 0 /\ n[3] = 0) \/ (n[1] = 0 /\ n[2] < 0 /\ n[3] = 0) THEN 650
    ELSE 300

\* brightness * base_color (0.7, 0.7, 0.75), in units of 1e-5.
FaceRgb(n) == <<70 * Brightness(n), 70 * Brightness(n), 75 * Brightness(n)>>

GetBounds ==
    /\ pc = "bounds"
    /\ cache' = Bounds(cache, vectors)
    /\ min_b' = cache'[1]
    /\ max_b' = cache'[2]
    /\ face_rgb' = [f \in 1..Len(normals) |-> FaceRgb(normals[f])]
    /\ pc' = "camera"
    /\ UNCHANGED <<elsewhere, inputVars, outfile, vectors, normals, x_ndc, y_ndc, z_view,
                   imageVars, bufVars, exc, result>>

\* ------------------------------------------------ camera and projection ----
\* <<sin, cos>> of camera_tilt, for the tilts among the inputs.
SinCosTilt(t) == IF t = 0 THEN <<0, 1>> ELSE <<1, 0>>

\* sin(radians(fov) / 2) for fov = 60.
SinHalfFov == <<1, 2>>

\* scene_radius / sin(fov / 2) * 1.5, scene_radius = |extents| / 2.
CamDist(lo, hi) ==
    QMul(QDiv(<<Isqrt(Dot(VSub(hi, lo), VSub(hi, lo))), 2>>, SinHalfFov), <<3, 2>>)

Centroid(lo, hi) == [k \in 1..3 |-> QN(lo[k] + hi[k], 2)]

\* centroid + (0, -cam_dist * sin(tilt), cam_dist * cos(tilt))
Offset(c, d, t) ==
    <<c[1],
      QSub(c[2], QMul(d, QI(SinCosTilt(t)[1]))),
      QAdd(c[3], QMul(d, QI(SinCosTilt(t)[2])))>>

CamPos(lo, hi, t) == Offset(Centroid(lo, hi), CamDist(lo, hi), t)

\* v / |v| for a vector along one axis (integer result).
UnitAxis(v) == <<Sgn(v[1]), Sgn(v[2]), Sgn(v[3])>>

Toward(c, e) == UnitAxis(<<QSub(c[1], e[1])[1], QSub(c[2], e[2])[1], QSub(c[3], e[3])[1]>>)

\* forward = (centroid - cam_pos) / |centroid - cam_pos|
Forward(lo, hi, t) == Toward(Centroid(lo, hi), CamPos(lo, hi, t))

WorldUp(fwd) ==
    IF 1000 * Abs(Dot(fwd, <<0, 0, 1>>)) > 999 THEN <<0, -1, 0>> ELSE <<0, 0, 1>>

Right(fwd) == UnitAxis(Cross(fwd, WorldUp(fwd)))

CamUp(fwd) == Cross(Right(fwd), fwd)

\* vf = vertex - cam_pos
ViewVec(v, e) == <<QSub(QI(v[1]), e[1]), QSub(QI(v[2]), e[2]), QSub(QI(v[3]), e[3])>>

ZClamp(z, near) == IF QLess(near, z) THEN z ELSE near

\* np.where(z_view > 0.01 * cam_dist, z_view, 0.01 * cam_dist)
ZSafe(z, d) == ZClamp(z, QMul(<<1, 100>>, d))

\* <<x_ndc, y_ndc, z_view>> from the view-space coordinates.
Ndc(xv, yv, z, zs) == <<QDiv(xv, zs), QDiv(yv, zs), z>>

ProjectView(vf, z, d, rgt, up) == Ndc(QDot(vf, rgt), QDot(vf, up), z, ZSafe(z, d))

ProjectVf(vf, d, fwd, rgt, up) == ProjectView(vf, QDot(vf, fwd), d, rgt, up)

\* <<x_ndc, y_ndc, z_view>> of one vertex.
ProjectVertex(v, e, d, fwd, rgt, up) == ProjectVf(ViewVec(v, e), d, fwd, rgt, up)

\* The projection of faces 1..n, each <<p0, p1, p2>> of projected vertices.
RECURSIVE ProjectFaces(_, _, _, _, _, _, _)
ProjectFaces(vs, n, e, d, fwd, rgt, up) ==
    IF n = 0 THEN <<>>
    ELSE Append(ProjectFaces(vs, n - 1, e, d, fwd, rgt, up),
                << ProjectVertex(vs[n][1], e, d, fwd, rgt, up),
                   ProjectVertex(vs[n][2], e, d, fwd, rgt, up),
                   ProjectVertex(vs[n][3], e, d, fwd, rgt, up) >>)

ProjectMesh(vs, e, d, fwd) == ProjectFaces(vs, Len(vs), e, d, fwd, Right(fwd), CamUp(fwd))

\* Component k of the projection P, reshaped (N, 3).
Reshape(P, k) == [f \in 1..Len(P) |-> [j \in 1..3 |-> P[f][j][k]]]

SetProjection(P) ==
    /\ x_ndc' = Reshape(P, 1)
    /\ y_ndc' = Reshape(P, 2)
    /\ z_view' = Reshape(P, 3)

Project ==
    /\ pc = "camera"
    /\ SetProjection(ProjectMesh(vectors, CamPos(min_b, max_b, camera_tilt),
                                 CamDist(min_b, max_b),
                                 Forward(min_b, max_b, camera_tilt)))
    /\ pc' = "size"
    /\ UNCHANGED <<elsewhere, inputVars, outfile, meshVars, min_b, max_b, face_rgb, imageVars,
                   bufVars, exc, result>>

\* ------------------------------------------------------- image sizing ----
Ravel(a) == {a[f][j] : f \in 1..Len(a), j \in 1..3}

Range(a) == QSub(QSetMax(Ravel(a)), QSetMin(Ravel(a)))

\* aspect_ratio = xr / yr if yr > 0 else 1.0
AspectRatio(xr, yr) == IF yr[1] > 0 THEN QDiv(xr, yr) ELSE QI(1)

\* The shorter side without its lower clamp.
NoClamp(n) == n

\* The clamp max(1, int(round(x))) of the shorter side.
ClampSide(n) == Max2(1, n)

ImageW(m, a) == IF QLeq(QI(1), a) THEN m ELSE ClampSide(RoundHalfEven(QMul(QI(m), a)))

ImageH(m, a) == IF QLeq(QI(1), a) THEN ClampSide(RoundHalfEven(QDiv(QI(m), a))) ELSE m

SetSize(m, a) == W' = ImageW(m, a) /\ H' = ImageH(m, a)

ImageSize ==
    /\ pc = "size"
    /\ SetSize(max_dimension, AspectRatio(Range(x_ndc), Range(y_ndc)))
    /\ pc' = "map"
    /\ UNCHANGED <<elsewhere, inputVars, outfile, meshVars, projVars, px, py, bufVars, exc, result>>

\* ------------------------------------------------------ NDC to pixels ----
Pad == <<1, 50>>

\* t * n; 0/0 is NaN and stays NaN.
Scale(t, n) == IF IsNaN(t) THEN NaN ELSE QMul(t, QI(n))

\* (v - lo) / (hi - lo) * n
Lerp(v, lo, hi, n) == Scale(QDiv(QSub(v, lo), QSub(hi, lo)), n)

\* xn_lo = min - xr * pad, xn_hi = max + xr * pad
PadLo(all) == QSub(QSetMin(Ravel(all)), QMul(Range(all), Pad))

PadHi(all) == QAdd(QSetMax(Ravel(all)), QMul(Range(all), Pad))

\* The x mapping scaled by W instead of W - 1.
PixelXFullWidth(x, lo, hi, w) == Lerp(x, lo, hi, w)

PixelX(x, lo, hi, w) == Lerp(x, lo, hi, w - 1)

\* The y axis is flipped: (yn_hi - y) / (yn_hi - yn_lo) * (H - 1).
PixelY(y, lo, hi, h) == Lerp(QNeg(y), QNeg(hi), QNeg(lo), h - 1)

Pixels(w, h) == (0..(h - 1)) \X (0..(w - 1))

PixelsX(xn, lo, hi, w) == [f \in 1..Len(xn) |-> [j \in 1..3 |-> PixelX(xn[f][j], lo, hi, w)]]

PixelsY(yn, lo, hi, h) == [f \in 1..Len(yn) |-> [j \in 1..3 |-> PixelY(yn[f][j], lo, hi, h)]]

\* np.zeros((H, W, 4))
ZeroColor(w, h) == [p \in Pixels(w, h) |-> <<0, 0, 0, 0>>]

\* ------------------------------------------------- z-buffer rasterizer ----
HasNaN(v) == \E j \in 1..3 : IsNaN(v[j])

TriMin(v) == QSetMin({v[1], v[2], v[3]})

TriMax(v) == QSetMax({v[1], v[2], v[3]})

\* The pixels <<row, col>> of the triangle's bounding box clipped to the image
\* (empty when bx0 > bx1 or by0 > by1).
BBox(vx, vy, w, h) ==
    (Max2(0, QTrunc(TriMin(vy)))..Min2(h - 1, QCeil(TriMax(vy))))
        \X (Max2(0, QTrunc(TriMin(vx)))..Min2(w - 1, QCeil(TriMax(vx))))

\* denom = (y1 - y2) * (x0 - x2) + (x2 - x1) * (y0 - y2)
Denom(vx, vy) ==
    QAdd(QMul(QSub(vy[2], vy[3]), QSub(vx[1], vx[3])),
         QMul(QSub(vx[3], vx[2]), QSub(vy[1], vy[3])))

\* A test for an exactly zero denominator only.
DegenerateZeroOnly(d) == d[1] = 0

\* abs(denom) < 0.5
Degenerate(d) == QLess(QAbs(d), <<1, 2>>)

\* The weights and depths of the loop are float32 arrays: inv_d = 1.0 / denom
\* is rounded, and so is every product and sum after it.  A computed value is
\* <<q, e>>: its exact value q and the sign e of its rounding error, which the
\* NumPy build decides.  The error is far below the distance between two
\* different exact values of a render, so it decides a comparison only between
\* values that are equal exactly: a weight that is exactly 0 (a pixel centre on
\* an edge of the triangle) and two depths that are exactly equal.
Errs == {-1, 0, 1}

Fl(q, e) == <<q, e>>

\* a < b on computed values.
FlLess(a, b) == QLess(a[1], b[1]) \/ (a[1] = b[1] /\ a[2] < b[2])

\* a >= 0 on a computed value.
FlNonNeg(a) == a[1][1] > 0 \/ (a[1][1] = 0 /\ a[2] >= 0)

\* The entry of depth_buf that np.full((H, W), np.inf) sets.
NoDepth == Fl(Inf, 0)

\* The value standing for "no depth computed": the pixel is not inside.
NoZ == Fl(NaN, 0)

\* The rounding errors of one pass of the loop: the pixel centres on an edge
\* whose zero weight comes out negative, and the error sign of z_interp at the
\* pixels where it matters.
NoRounding == [lost |-> {}, z |-> <<>>]

ErrW(r, p) == IF p \in r.lost THEN -1 ELSE 0

ErrZ(r, p) == IF p \in DOMAIN r.z THEN r.z[p] ELSE 0

Weights(w0, w1, e) == <<Fl(w0, e), Fl(w1, e), Fl(QSub(QSub(QI(1), w0), w1), e)>>

\* <<w0, w1, w2>> at pixel (gx, gy); d is denom, inv_d = 1.0 / denom, e the
\* sign of the rounding error of the weights.
Bary(vx, vy, d, gx, gy, e) ==
    Weights(QDiv(QAdd(QMul(QSub(vy[2], vy[3]), QSub(QI(gx), vx[3])),
                      QMul(QSub(vx[3], vx[2]), QSub(QI(gy), vy[3]))), d),
            QDiv(QAdd(QMul(QSub(vy[3], vy[1]), QSub(QI(gx), vx[3])),
                      QMul(QSub(vx[1], vx[3]), QSub(QI(gy), vy[3]))), d),
            e)

\* inside = (w0 >= 0) & (w1 >= 0) & (w2 >= 0)
Inside(w) == FlNonNeg(w[1]) /\ FlNonNeg(w[2]) /\ FlNonNeg(w[3])

\* A weight is exactly zero: the pixel centre lies on an edge line.
OnEdge(w) == \E j \in 1..3 : w[j][1][1] = 0

\* z_interp = w0 * vz[0] + w1 * vz[1] + w2 * vz[2], with rounding error e.
ZInterp(w, vz, e) ==
    Fl(QAdd(QAdd(QMul(w[1][1], vz[1]), QMul(w[2][1], vz[2])), QMul(w[3][1], vz[3])), e)

\* The loop skips the triangle: bx0 > bx1 or by0 > by1, or abs(denom) < 0.5.
Skipped(box, d) == box = {} \/ Degenerate(d)

\* The depth at a pixel whose weights are w, NoZ when the pixel is not inside.
DepthIfInside(w, vz, e) == IF Inside(w) THEN ZInterp(w, vz, e) ELSE NoZ

\* z_interp of the triangle at pixel p = <<row, col>> under the rounding r, NoZ
\* when the triangle is skipped or does not cover p.
TriDepth(vx, vy, vz, box, d, skip, p, r) ==
    IF skip \/ p \notin box THEN NoZ
    ELSE DepthIfInside(Bary(vx, vy, d, p[2], p[1], ErrW(r, p)), vz, ErrZ(r, p))

\* No depth test: every covered pixel is overwritten.
CloserAlways(z, cur) == TRUE

\* The depth test with <= in place of <.
CloserOrEqual(z, cur) == cur = NoDepth \/ ~FlLess(cur, z)

\* closer = z_interp < depth_buf[ay, ax]
Closer(z, cur) == cur = NoDepth \/ FlLess(z, cur)

\* The colour written without setting the alpha channel.
ShadedNoAlpha(rgb) == <<rgb[1], rgb[2], rgb[3], 0>>

\* color_buf[uy, ux, :3] = face_rgb[i]; color_buf[uy, ux, 3] = 1.0
Shaded(rgb) == <<rgb[1], rgb[2], rgb[3], 1>>

\* The depth written wherever the triangle covers the pixel.
DepthOverwrite(z, cur) == IF z # NoZ THEN z ELSE cur

\* depth_buf[uy, ux] = z_interp[closer]
DepthWrite(z, cur) == IF z # NoZ /\ Closer(z, cur) THEN z ELSE cur

ColorWrite(z, cur, col, rgb) == IF z # NoZ /\ Closer(z, cur) THEN Shaded(rgb) ELSE col

\* One pass of the loop body for a triangle with pixel coordinates vx, vy,
\* depths vz and colour rgb, under the rounding r.
RasterDepth(db, vx, vy, vz, box, d, skip, r) ==
    [p \in DOMAIN db |-> DepthWrite(TriDepth(vx, vy, vz, box, d, skip, p, r), db[p])]

RasterColor(cb, db, vx, vy, vz, rgb, box, d, skip, r) ==
    [p \in DOMAIN cb |->
        ColorWrite(TriDepth(vx, vy, vz, box, d, skip, p, r), db[p], cb[p], rgb)]

Rasterize(vx, vy, vz, rgb, box, d, skip, r) ==
    /\ depth_buf' = RasterDepth(depth_buf, vx, vy, vz, box, d, skip, r)
    /\ color_buf' = RasterColor(color_buf, depth_buf, vx, vy, vz, rgb, box, d, skip, r)

RasterTriangle(vx, vy, vz, rgb, box, d, r) ==
    Rasterize(vx, vy, vz, rgb, box, d, Skipped(box, d), r)

\* The exact z_interp of triangle k of the projection (PX, PY, ZV) at pixel p.
ExactDepthIn(vx, vy, vz, box, d, p) ==
    TriDepth(vx, vy, vz, box, d, Skipped(box, d), p, NoRounding)

ExactDepth(PX, PY, ZV, w, h, k, p) ==
    IF HasNaN(PX[k]) \/ HasNaN(PY[k]) THEN NoZ
    ELSE ExactDepthIn(PX[k], PY[k], ZV[k], BBox(PX[k], PY[k], w, h), Denom(PX[k], PY[k]), p)

\* The pixel centres of a scanned box that lie on an edge of the triangle.
OnEdgeIn(vx, vy, box, d) ==
    IF Skipped(box, d) THEN {}
    ELSE {p \in box : Inside(Bary(vx, vy, d, p[2], p[1], 0))
                        /\ OnEdge(Bary(vx, vy, d, p[2], p[1], 0))}

EdgePixels(PX, PY, w, h, k) ==
    IF HasNaN(PX[k]) \/ HasNaN(PY[k]) THEN {}
    ELSE OnEdgeIn(PX[k], PY[k], BBox(PX[k], PY[k], w, h), Denom(PX[k], PY[k]))

\* The pixels where the exact depth of triangle k is that of an earlier
\* triangle: there the rounding errors decide the depth test.
TiePixels(PX, PY, ZV, w, h, k) ==
    {p \in Pixels(w, h) :
        /\ ExactDepth(PX, PY, ZV, w, h, k, p) # NoZ
        /\ \E j \in 1..(k - 1) :
               ExactDepth(PX, PY, ZV, w, h, j, p) = ExactDepth(PX, PY, ZV, w, h, k, p)}

\* The roundings pass k of the loop can come out with: any of the pixel centres
\* on an edge is lost, and where the exact depth ties with an earlier
\* triangle's the computed one is below, equal to or above it.
RoundingsOf(PX, PY, ZV, w, h, k) ==
    {[lost |-> L, z |-> t] : L \in SUBSET EdgePixels(PX, PY, w, h, k),
                             t \in [TiePixels(PX, PY, ZV, w, h, k) -> Errs]}

\* The roundings of the first n passes.
RECURSIVE Roundings(_, _, _, _, _, _)
Roundings(PX, PY, ZV, w, h, n) ==
    IF n = 0 THEN {<<>>}
    ELSE {Append(R, r) : R \in Roundings(PX, PY, ZV, w, h, n - 1),
                         r \in RoundingsOf(PX, PY, ZV, w, h, n)}

\* np.full((H, W), np.inf)
InfDepth(w, h) == [p \in Pixels(w, h) |-> NoDepth]

SetPixels(xlo, xhi, ylo, yhi) ==
    /\ px' = PixelsX(x_ndc, xlo, xhi, W)
    /\ py' = PixelsY(y_ndc, ylo, yhi, H)

PixelMap ==
    /\ pc = "map"
    /\ SetPixels(PadLo(x_ndc), PadHi(x_ndc), PadLo(y_ndc), PadHi(y_ndc))
    /\ round' \in Roundings(px', py', z_view, W, H, Len(x_ndc))
    /\ color_buf' = ZeroColor(W, H)
    /\ depth_buf' = InfDepth(W, H)
    /\ i' = 1
    /\ pc' = "raster"
    /\ UNCHANGED <<elsewhere, inputVars, outfile, meshVars, projVars, W, H, exc, result>>

RasterStep ==
    /\ pc = "raster"
    /\ IF HasNaN(px[i]) \/ HasNaN(py[i])
       THEN \* int(vx.min()) or int(vy.min()) raises ValueError
            /\ Raise("Exception")
            /\ UNCHANGED bufVars
       ELSE /\ RasterTriangle(px[i], py[i], z_view[i], face_rgb[i],
                              BBox(px[i], py[i], W, H), Denom(px[i], py[i]), round[i])
            /\ i' = i + 1
            /\ pc' = IF i = Len(px) THEN "save" ELSE "raster"
            /\ UNCHANGED <<exc, round>>
    /\ UNCHANGED <<elsewhere, inputVars, outfile, meshVars, projVars, imageVars, result>>

\* --------------------------------------------------------------- save ----
\* plt.imsave(output_path, color_buf) opens output_path for writing, which
\* creates or truncates it, then encodes into it.
SaveOpen ==
    /\ pc = "save"
    /\ outfile' = "partial"
    /\ pc' = "encode"
    /\ UNCHANGED <<elsewhere, inputVars, meshVars, projVars, imageVars, bufVars, exc, result>>

\* The path cannot be opened (no such directory, no permission).
SaveOpenFails ==
    /\ pc = "save"
    /\ Raise("Exception")
    /\ UNCHANGED <<elsewhere, inputVars, outfile, meshVars, projVars, imageVars, bufVars, result>>

\* The image is written in full and the function returns True.
SaveWrite ==
    /\ pc = "encode"
    /\ outfile' = "image"
    /\ result' = "True"
    /\ pc' = "done"
    /\ UNCHANGED <<elsewhere, inputVars, meshVars, projVars, imageVars, bufVars, exc>>

\* Encoding or writing fails after the file was opened (disk full, I/O
\* error).  The truncated file stays; a file the call created may be removed
\* by the image library.
SaveWriteFails ==
    /\ pc = "encode"
    /\ outfile' \in {"partial"} \cup (IF outfile0 = "absent" THEN {"absent"} ELSE {})
    /\ Raise("Exception")
    /\ UNCHANGED <<elsewhere, inputVars, meshVars, projVars, imageVars, bufVars, result>>

\* ----------------------------------------------------- except clauses ----
\* Only the first except clause.
CaughtMissingOnly(e) == e = "FileNotFoundError"

\* except FileNotFoundError / except Exception
Caught(e) == e \in {"FileNotFoundError", "Exception"}

Handler ==
    /\ pc = "except"
    /\ result' = IF Caught(exc) THEN "False" ELSE "raised"
    /\ pc' = "done"
    /\ UNCHANGED <<elsewhere, inputVars, outfile, meshVars, projVars, imageVars, bufVars, exc>>

Next ==
    \/ Load
    \/ DebugMeshInfo
    \/ Rotate
    \/ GetBounds
    \/ Project
    \/ ImageSize
    \/ PixelMap
    \/ RasterStep
    \/ SaveOpen
    \/ SaveOpenFails
    \/ SaveWrite
    \/ SaveWriteFails
    \/ Handler

Spec == Init /\ [][Next]_vars

\* ------------------------------------------------------ properties ----
\* The buffers are allocated (the pixel mapping has run).
Allocated == i >= 1

\* No projected pixel coordinate is NaN.
NoNaN == \A k \in 1..Len(px) : ~HasNaN(px[k]) /\ ~HasNaN(py[k])

\* The depth the loop computes for triangle k at pixel p, NoZ when it computes
\* none.
TriDepthIn(vx, vy, vz, box, d, p, r) ==
    TriDepth(vx, vy, vz, box, d, Skipped(box, d), p, r)

TriDepthAt(k, p) ==
    TriDepthIn(px[k], py[k], z_view[k], BBox(px[k], py[k], W, H), Denom(px[k], py[k]), p,
               round[k])

\* <<TriDepthAt(1, p), ..., TriDepthAt(n, p)>>
RECURSIVE DepthsAt(_, _)
DepthsAt(p, n) ==
    IF n = 0 THEN <<>> ELSE Append(DepthsAt(p, n - 1), TriDepthAt(n, p))

\* The triangles that cover a pixel where their depths are D.
Covering(D) == {k \in 1..Len(D) : D[k] # NoZ}

DistinctDepths(D, C) == \A a, b \in C : a # b => D[a] # D[b]

\* Triangle k has the smallest depth of the triangles C.
Nearest(D, C, k) == k \in C /\ \A j \in C \ {k} : FlLess(D[k], D[j])

\* A pixel of colour c covered by two or more triangles C of pairwise
\* different depths D shows the nearest of them.
NearestShown(D, C, c) ==
    (Cardinality(C) >= 2 /\ DistinctDepths(D, C)) =>
        \E k \in C : Nearest(D, C, k) /\ c = Shaded(face_rgb[k])

\* C1: when the loop has ended, a pixel covered by two or more triangles whose
\* interpolated depths there are pairwise different has the flat colour of the
\* triangle with the smallest depth, in whatever order the faces are stored.
C1_NearestWins ==
    pc = "save" =>
        \A p \in DOMAIN color_buf :
            NearestShown(DepthsAt(p, Len(px)), Covering(DepthsAt(p, Len(px))),
                         color_buf[p])

NearestDrawnFirst(D, C) ==
    DistinctDepths(D, C) /\ \E k, j \in C : k < j /\ Nearest(D, C, k)

\* A finished loop with a pixel where the nearest triangle was drawn before a
\* farther one that also covers it.
C1_Witness ==
    /\ pc = "save"
    /\ \E p \in DOMAIN color_buf :
           NearestDrawnFirst(DepthsAt(p, Len(px)), Covering(DepthsAt(p, Len(px))))

\* A pixel that none of the triangles with depths D covers is background.
Background(D, c, z) == Covering(D) = {} => (c = <<0, 0, 0, 0>> /\ z = NoDepth)

\* C2: once the buffers exist, every pixel's alpha is 0 or 1 and it is 1
\* exactly when the pixel's depth is finite; during the loop and at its end, a
\* pixel no processed triangle covers still holds RGBA (0, 0, 0, 0) and depth
\* +infinity.
C2_AlphaIffDepth ==
    /\ Allocated =>
           \A p \in DOMAIN color_buf :
               /\ color_buf[p][4] \in {0, 1}
               /\ color_buf[p][4] = 1 <=> depth_buf[p][1] # Inf
    /\ (pc \in {"raster", "save"} /\ NoNaN) =>
           \A p \in DOMAIN color_buf :
               Background(DepthsAt(p, i - 1), color_buf[p], depth_buf[p])

\* A finished loop with a drawn pixel and a background pixel.
C2_Witness ==
    /\ pc = "save"
    /\ \E p, q \in DOMAIN color_buf :
        /\ color_buf[p][4] = 1 /\ Covering(DepthsAt(p, Len(px))) # {}
        /\ color_buf[q][4] = 0 /\ Covering(DepthsAt(q, Len(px))) = {}

\* The denominator d is zero or below 0.5 in absolute value.
ZeroOrSubPixel(d) == d[1] = 0 \/ 2 * Abs(d[1]) < d[2]

\* C3: a triangle whose projected barycentric denominator is zero or smaller
\* than 0.5 in absolute value leaves the colour and depth buffers as they were,
\* and the loop goes on to the next triangle without raising.
C3_DegenerateSkipped ==
    [][(pc = "raster" /\ ~HasNaN(px[i]) /\ ~HasNaN(py[i])
            /\ ZeroOrSubPixel(Denom(px[i], py[i])))
        => /\ color_buf' = color_buf
           /\ depth_buf' = depth_buf
           /\ i' = i + 1
           /\ pc' \in {"raster", "save"}
           /\ exc' = "none"]_vars

\* The loop has passed a triangle with a zero denominator and one with a
\* non-zero denominator below 0.5 that covers a pixel centre.
C3_Witness ==
    /\ pc \in {"raster", "save"}
    /\ NoNaN
    /\ \E k \in 1..(i - 1) : Denom(px[k], py[k])[1] = 0
    /\ \E k \in 1..(i - 1) :
        /\ Denom(px[k], py[k])[1] # 0
        /\ ZeroOrSubPixel(Denom(px[k], py[k]))
        /\ \E p \in BBox(px[k], py[k], W, H) :
               Inside(Bary(px[k], py[k], Denom(px[k], py[k]), p[2], p[1], 0))

\* The rotation block has run on a loaded mesh.
AfterRotate == Len(vectors) > 0 /\ pc \notin {"debug", "rotate"}

\* The bounds the camera uses have been read.
AfterBounds == min_b # <<>>

\* (x, y, z) turned about Z by a quarter, a half or three quarters of a turn.
Turned(v, a) ==
    CASE a = 90  -> <<-v[2], v[1], v[3]>>
      [] a = 180 -> <<-v[1], -v[2], v[3]>>
      [] a = 270 -> <<v[2], -v[1], v[3]>>

\* The stored vertices and their normals, each turned by a.
TurnedVertices(a) == [f \in 1..Len(mesh0) |-> [j \in 1..3 |-> Turned(mesh0[f][j], a)]]

TurnedNormals(a) == [f \in 1..Len(mesh0) |-> Turned(FaceNormal(mesh0[f]), a)]

Extent(vs, k) == ComputeMax(vs)[k] - ComputeMin(vs)[k]

\* C4: a rotation r with r mod 360 = 90, 180 or 270 maps every vertex and
\* normal (x, y, z) to exactly (-y, x, z), (-x, -y, z) or (y, -x, z), and a
\* rotation by 90 exchanges the X and Y extents of the bounding box.
C4_ExactRotation ==
    /\ (AfterRotate /\ rotation % 360 \in {90, 180, 270}) =>
           /\ vectors = TurnedVertices(rotation % 360)
           /\ normals = TurnedNormals(rotation % 360)
    /\ (AfterBounds /\ rotation % 360 = 90) =>
           /\ max_b[1] - min_b[1] = Extent(mesh0, 2)
           /\ max_b[2] - min_b[2] = Extent(mesh0, 1)
           /\ max_b[3] - min_b[3] = Extent(mesh0, 3)

\* A mesh with different X and Y extents rendered with rotation 450 (90 mod
\* 360), after its bounds were read.
C4_Witness ==
    /\ AfterBounds
    /\ rotation = 450
    /\ Extent(mesh0, 1) # Extent(mesh0, 2)
    /\ max_b[1] - min_b[1] = Extent(mesh0, 2)

\* (360 - a) mod 360
Complement(a) == (360 - a) % 360

\* The mesh with vertices vs and normals ns is the stored one.
Restored(vs, ns) ==
    /\ vs = mesh0
    /\ ns = [f \in 1..Len(mesh0) |-> FaceNormal(mesh0[f])]
    /\ ComputeMin(vs) = ComputeMin(mesh0)
    /\ ComputeMax(vs) = ComputeMax(mesh0)

\* C5: for a in {0, 90, 180, 270}, the mesh rotated by a and then by
\* (360 - a) mod 360 has every vertex, every normal and the bounding box of
\* the stored mesh again.
C5_RotateBack ==
    (AfterRotate /\ rotation \in {0, 90, 180, 270}) =>
        Restored(RotatedVectors(vectors, Complement(rotation)),
                 RotatedNormals(normals, Complement(rotation)))

\* A mesh rotated by 90 whose vertices and bounding box differ from the stored
\* ones until the rotation by 270 is applied.
C5_Witness ==
    /\ AfterRotate
    /\ rotation = 90
    /\ vectors # mesh0
    /\ ComputeMin(vectors) # ComputeMin(mesh0)
    /\ RotatedVectors(vectors, 270) = mesh0

\* C6: no exception escapes the call; it returns False whenever a step failed
\* and True only when the image was saved.
C6_NoEscape ==
    /\ result # "raised"
    /\ pc = "done" => result \in {"True", "False"}
    /\ (pc = "done" /\ (exc # "none" \/ stl_file # "ok")) => result = "False"
    /\ result = "True" => (outfile = "image" /\ exc = "none")

\* The call has returned False after a failure past the load that is not a
\* missing file (a NaN pixel coordinate or a failed save).
C6_Witness ==
    /\ pc = "done"
    /\ Allocated
    /\ exc = "Exception"
    /\ result = "False"

\* C7: whenever the call returns False, the file at output_path is as it was
\* before the call, also when the failure happens while the image is encoded.
C7_OutputUntouchedOnFalse == result = "False" => outfile = outfile0

\* The stored mesh lies in one plane z = const.
FlatMesh == Extent(mesh0, 3) = 0

\* C8: for a flat mesh seen with camera_tilt = 90, whose projected y-range is
\* zero, the sizing and the NDC-to-pixel mapping divide by no zero (no pixel
\* coordinate is NaN) and the image height is clamped to 1.
C8_FlatEdgeOn ==
    (Allocated /\ FlatMesh /\ camera_tilt = 90 /\ Range(y_ndc)[1] = 0) =>
        (NoNaN /\ H = 1)

\* r is x rounded to the nearest integer, the even one on a tie.
IsRounded(r, x) ==
    /\ 2 * Abs(r * x[2] - x[1]) <= x[2]
    /\ 2 * Abs(r * x[2] - x[1]) = x[2] => r % 2 = 0

\* side = max(1, round(x)), with round(x) among 0..max_dimension.
ClampedRound(side, x) ==
    \E r \in 0..max_dimension : IsRounded(r, x) /\ side = IF r >= 1 THEN r ELSE 1

\* W and H are the sizes the formula gives for the ranges xr and yr.
SizedFor(xr, yr) ==
    IF yr[1] = 0 THEN W = max_dimension /\ H = max_dimension
    ELSE IF QLeq(yr, xr)
         THEN W = max_dimension /\ ClampedRound(H, QDiv(QMul(QI(max_dimension), yr), xr))
         ELSE H = max_dimension /\ ClampedRound(W, QDiv(QMul(QI(max_dimension), xr), yr))

\* C9: once the image is sized, W and H are at least 1 and at most
\* max_dimension and one of them is max_dimension; right after the sizing, with aspect = xr / yr (1
\* when yr is not positive), aspect >= 1 gives W = max_dimension and
\* H = max(1, round(max_dimension / aspect)), and aspect < 1 gives
\* W = max(1, round(max_dimension * aspect)) and H = max_dimension.
C9_ImageSize ==
    /\ W # 0 =>
           /\ W \in 1..max_dimension /\ H \in 1..max_dimension
           /\ W = max_dimension \/ H = max_dimension
    /\ pc = "map" => SizedFor(Range(x_ndc), Range(y_ndc))

\* An image whose shorter side rounds to 0 and is clamped to 1.
C9_Witness ==
    /\ W # 0
    /\ Range(y_ndc)[1] # 0
    /\ QLeq(QMul(QI(2 * max_dimension), Range(y_ndc)), Range(x_ndc))
    /\ W = max_dimension
    /\ H = 1

\* The bounds in use are those of the vertices vs.
BoundsOf(vs) == min_b = ComputeMin(vs) /\ max_b = ComputeMax(vs)

\* C10: after a non-zero rotation, the bounding box the centroid, radius and
\* camera are computed from is that of the rotated vertices, whether or not
\* debug_mesh_info read (and cached) the bounds before the rotation.
C10_BoundsOfRotated ==
    (AfterBounds /\ rotation # 0) =>
        (vectors = RotateVectors(mesh0, rotation) /\ BoundsOf(vectors))

\* A call with quiet = False (the bounds were cached before the rotation) and
\* a rotation that moves the bounding box.
C10_Witness ==
    /\ AfterBounds
    /\ ~quiet
    /\ rotation = 90
    /\ ComputeMin(mesh0) # ComputeMin(vectors)
    /\ min_b = ComputeMin(vectors)

\* ------------------------------------------ two calls running at once ----
\* Two calls of render_stl_to_png_perspective whose steps interleave.  Each
\* call has its own local variables; the arrays live in a heap shared by the
\* interpreter and are reached through the handle np.zeros / np.full return.
CallIds == {1, 2}

CallMeshes == {<<FaceB, FaceT>>, <<FaceT, FaceB>>, <<FaceFa>>}

CallArgs == [stl_file : {"ok", "missing"}, mesh : CallMeshes, max_dimension : {3}]

\* camera_tilt of both calls.
CallTilt == 0

\* The locals of a call that has not reached the projection.
NoLocals ==
    [pc |-> "load", px |-> <<>>, py |-> <<>>, z_view |-> <<>>, face_rgb |-> <<>>,
     W |-> 0, H |-> 0, round |-> <<>>, buf |-> 0, i |-> 0, io |-> "none",
     result |-> "none"]

ConcInit ==
    /\ RenderIdle /\ BatchIdle /\ ParseIdle /\ SliceIdle /\ LibIdle /\ CamIdle /\ PsIdle /\ UpdIdle /\ CsIdle
    /\ args \in [CallIds -> CallArgs]
    /\ call = [c \in CallIds |-> NoLocals]
    /\ heap = <<>>
    /\ saved = [c \in CallIds |-> "absent"]
    /\ turns = <<0, 0>>

\* The locals after the pixel mapping, from the NDC coordinates.
CallMapped(xn, yn, zv, rgb, w, h) ==
    [pc |-> "alloc",
     px |-> PixelsX(xn, PadLo(xn), PadHi(xn), w),
     py |-> PixelsY(yn, PadLo(yn), PadHi(yn), h),
     z_view |-> zv, face_rgb |-> rgb, W |-> w, H |-> h, round |-> <<>>,
     buf |-> 0, i |-> 0, io |-> "none", result |-> "none"]

CallSized(xn, yn, zv, rgb, m, a) == CallMapped(xn, yn, zv, rgb, ImageW(m, a), ImageH(m, a))

CallProjected(P, rgb, m) ==
    CallSized(Reshape(P, 1), Reshape(P, 2), Reshape(P, 3), rgb, m,
              AspectRatio(Range(Reshape(P, 1)), Range(Reshape(P, 2))))

CallCamera(vs, lo, hi, t, m) ==
    CallProjected(ProjectMesh(vs, CamPos(lo, hi, t), CamDist(lo, hi), Forward(lo, hi, t)),
                  [f \in 1..Len(vs) |-> FaceRgb(FaceNormal(vs[f]))], m)

\* Load to pixel mapping of one call: all of it works on the call's locals.
CallPrepare(a) ==
    CallCamera(a.mesh, ComputeMin(a.mesh), ComputeMax(a.mesh), CallTilt, a.max_dimension)

\* The step counter of the interleaving: the call that moved and the number
\* of times the moving call changed (counted up to 3).
Took(c) ==
    turns' = <<c, IF turns[1] \notin {0, c} /\ turns[2] < 3 THEN turns[2] + 1 ELSE turns[2]>>

\* The locals L with the rounding errors of the loop R.
Rounded(L, R) == [L EXCEPT !.round = R]

\* The roundings the loop over the locals L can come out with.
CallRoundings(L) == Roundings(L.px, L.py, L.z_view, L.W, L.H, Len(L.px))

CallLoad(c) ==
    /\ call[c].pc = "load"
    /\ IF args[c].stl_file = "ok"
       THEN \E R \in CallRoundings(CallPrepare(args[c])) :
                call' = [call EXCEPT ![c] = Rounded(CallPrepare(args[c]), R)]
       ELSE call' = [call EXCEPT ![c] = [NoLocals EXCEPT !.pc = "done", !.result = "False"]]
    /\ Took(c)
    /\ UNCHANGED <<besidesConc, args, heap, saved>>

\* One buffer handle serving every call.
Reused(h) == 1

\* The handle of a newly created array: one no earlier array has.
Fresh(h) == Cardinality(DOMAIN h) + 1

\* color_buf = np.zeros((H, W, 4)); depth_buf = np.full((H, W), np.inf)
NewBuffers(w, h) == [color_buf |-> ZeroColor(w, h), depth_buf |-> InfDepth(w, h)]

Allocate(c, b) ==
    /\ heap' = (b :> NewBuffers(call[c].W, call[c].H)) @@ heap
    /\ call' = [call EXCEPT ![c].buf = b, ![c].i = 1, ![c].pc = "raster"]

CallAlloc(c) ==
    /\ call[c].pc = "alloc"
    /\ Allocate(c, Fresh(heap))
    /\ Took(c)
    /\ UNCHANGED <<besidesConc, args, saved>>

RasterBuffers(B, vx, vy, vz, rgb, box, d, r) ==
    [color_buf |-> RasterColor(B.color_buf, B.depth_buf, vx, vy, vz, rgb, box, d,
                               Skipped(box, d), r),
     depth_buf |-> RasterDepth(B.depth_buf, vx, vy, vz, box, d, Skipped(box, d), r)]

\* The buffers B after the loop body for triangle k of the locals L.
RasterInto(B, L, k) ==
    RasterBuffers(B, L.px[k], L.py[k], L.z_view[k], L.face_rgb[k],
                  BBox(L.px[k], L.py[k], L.W, L.H), Denom(L.px[k], L.py[k]), L.round[k])

CallRaster(c) ==
    /\ call[c].pc = "raster"
    /\ heap' = [heap EXCEPT ![call[c].buf] = RasterInto(heap[call[c].buf], call[c], call[c].i)]
    /\ call' = [call EXCEPT ![c].i = call[c].i + 1,
                            ![c].pc = IF call[c].i = Len(call[c].px) THEN "save" ELSE "raster"]
    /\ Took(c)
    /\ UNCHANGED <<besidesConc, args, saved>>

\* Line 379: plt.imsave opens output_path, which creates or truncates the
\* file; the call then waits for the encoder, and other calls run meanwhile.
CallSave(c) ==
    /\ call[c].pc = "save"
    /\ saved' = [saved EXCEPT ![c] = "partial"]
    /\ call' = [call EXCEPT ![c].pc = "encode"]
    /\ Took(c)
    /\ UNCHANGED <<besidesConc, args, heap>>

\* Lines 379 and 391-395: the path cannot be opened; the handler returns
\* False.
CallSaveFails(c) ==
    /\ call[c].pc = "save"
    /\ call' = [call EXCEPT ![c].pc = "done", ![c].io = "open", ![c].result = "False"]
    /\ Took(c)
    /\ UNCHANGED <<besidesConc, args, heap, saved>>

\* Lines 379-385: the image is written in full; return True.
CallWrite(c) ==
    /\ call[c].pc = "encode"
    /\ saved' = [saved EXCEPT ![c] = heap[call[c].buf].color_buf]
    /\ call' = [call EXCEPT ![c].pc = "done", ![c].io = "ok", ![c].result = "True"]
    /\ Took(c)
    /\ UNCHANGED <<besidesConc, args, heap>>

\* Lines 379 and 391-395: encoding or writing fails after the file was
\* opened; the handler returns False.  The partial file stays, or the image
\* library removes the file it had created before the exception reaches the
\* handler (every output path is absent before its call).
CallWriteFails(c) ==
    /\ call[c].pc = "encode"
    /\ \E gone \in BOOLEAN :
          /\ saved' = [saved EXCEPT ![c] = IF gone THEN "absent" ELSE "partial"]
          /\ call' = [call EXCEPT ![c].pc = "done",
                                  ![c].io = IF gone THEN "write_rm" ELSE "write",
                                  ![c].result = "False"]
    /\ Took(c)
    /\ UNCHANGED <<besidesConc, args, heap>>

ConcNext ==
    \E c \in CallIds :
        \/ CallLoad(c)
        \/ CallAlloc(c)
        \/ CallRaster(c)
        \/ CallSave(c)
        \/ CallSaveFails(c)
        \/ CallWrite(c)
        \/ CallWriteFails(c)

ConcSpec == ConcInit /\ [][ConcNext]_concVars

\* The buffers of a call with locals L run on its own, after n triangles.
RECURSIVE AloneBuffers(_, _)
AloneBuffers(L, n) ==
    IF n = 0 THEN NewBuffers(L.W, L.H) ELSE RasterInto(AloneBuffers(L, n - 1), L, n)

AloneImage(L) == AloneBuffers(L, Len(L.px)).color_buf

\* What a call with arguments a returns and leaves at its output path when it
\* runs alone, its loop rounding as R and its imsave ending as io.
Alone(a, R, io) ==
    IF a.stl_file # "ok" \/ io \in {"open", "write_rm"} THEN <<"False", "absent">>
    ELSE IF io = "write" THEN <<"False", "partial">>
    ELSE <<"True", AloneImage(Rounded(CallPrepare(a), R))>>

\* C11: two calls with different output paths, interleaved in any way, each
\* return what they return when run alone (on the same input, in the same
\* build, with the same outcome of their own imsave) and leave the same file;
\* a call in its loop holds buffers no other call holds.
C11_CallsIndependent ==
    /\ \A c \in CallIds :
           call[c].pc = "done" =>
               <<call[c].result, saved[c]>> = Alone(args[c], call[c].round, call[c].io)
    /\ \A c, d \in CallIds :
           (c # d /\ call[c].buf # 0 /\ call[d].buf # 0) => call[c].buf # call[d].buf

\* Both calls have saved an image, their loops having taken turns.
C11_Witness ==
    /\ \A c \in CallIds : call[c].pc = "done" /\ call[c].result = "True"
    /\ \A c \in CallIds : call[c].io = "ok"
    /\ args[1].mesh # args[2].mesh
    /\ turns[2] >= 3

\* -------------------------------------------------------- batch mode ----
\* main with --batch: the files are named by their rank in string order.
FileNames == 1..MaxFiles

\* The duplicate-free sequences over S: the orders glob may list a directory in.
Listings(S) ==
    {q \in UNION {[1..n -> S] : n \in 0..Cardinality(S)} :
        \A a, b \in DOMAIN q : a # b => q[a] # q[b]}

BatchInit ==
    /\ RenderIdle /\ ConcIdle /\ ParseIdle /\ SliceIdle /\ LibIdle /\ CamIdle /\ PsIdle /\ UpdIdle /\ CsIdle
    /\ glob_result \in Listings(FileNames)
    /\ stl_files = <<>>
    /\ main_pc = "glob"
    /\ idx = 0
    /\ rendered = <<>>
    /\ successes = 0 /\ failures = 0
    /\ exit_code = -1

\* The list as glob gave it.
Unsorted(q) == q

\* sorted(glob(...))
Sorted(q) == SortSeq(q, LAMBDA a, b : a < b)

\* stl_files = sorted(glob(..)); sys.exit(1) when there is none.
BatchGlob ==
    /\ main_pc = "glob"
    /\ stl_files' = Sorted(glob_result)
    /\ IF Len(glob_result) = 0
       THEN exit_code' = 1 /\ main_pc' = "exited" /\ idx' = idx
       ELSE exit_code' = exit_code /\ main_pc' = "loop" /\ idx' = 1
    /\ UNCHANGED <<besidesBatch, glob_result, rendered, successes, failures>>

\* The loop goes on to the next file, or to the report after the last.
Advance ==
    /\ idx' = idx + 1
    /\ main_pc' = IF idx = Len(stl_files) THEN "report" ELSE "loop"

\* One pass of the loop whose render call returns True.
BatchRendered ==
    /\ main_pc = "loop"
    /\ rendered' = Append(rendered, <<stl_files[idx], TRUE>>)
    /\ successes' = successes + 1
    /\ Advance
    /\ UNCHANGED <<besidesBatch, glob_result, stl_files, failures, exit_code>>

\* One pass of the loop whose render call returns False.
BatchFailed ==
    /\ main_pc = "loop"
    /\ rendered' = Append(rendered, <<stl_files[idx], FALSE>>)
    /\ failures' = failures + 1
    /\ Advance
    /\ UNCHANGED <<besidesBatch, glob_result, stl_files, successes, exit_code>>

\* sys.exit(0 if failures == 0 else 1)
ExitStatus(f) == IF f = 0 THEN 0 ELSE 1

BatchExit ==
    /\ main_pc = "report"
    /\ exit_code' = ExitStatus(failures)
    /\ main_pc' = "exited"
    /\ UNCHANGED <<besidesBatch, glob_result, stl_files, idx, rendered, successes, failures>>

BatchNext ==
    \/ BatchGlob
    \/ BatchRendered
    \/ BatchFailed
    \/ BatchExit

BatchSpec == BatchInit /\ [][BatchNext]_batchVars

\* The files found, as a set, and the number of them below file n.
Found == {glob_result[k] : k \in DOMAIN glob_result}

Rank(n) == Cardinality({m \in Found : m < n})

\* The render calls made so far are for the first files in sorted order, one
\* call each.
RenderedInOrder ==
    /\ Len(rendered) <= Cardinality(Found)
    /\ \A k \in DOMAIN rendered :
           rendered[k][1] \in Found /\ Rank(rendered[k][1]) = k - 1

FailedCalls == {k \in DOMAIN rendered : ~rendered[k][2]}

\* C12 as stated: every file found is rendered once, in sorted order; at the
\* end successes + failures is the number of files, and the exit status is 0
\* exactly when no render failed.
C12_BatchAsStated ==
    /\ RenderedInOrder
    /\ exit_code # -1 =>
           /\ Len(rendered) = Cardinality(Found)
           /\ successes + failures = Cardinality(Found)
           /\ exit_code = 0 <=> FailedCalls = {}

\* C12, amended: when at least one file is found, every file is rendered once,
\* in sorted order, whatever the earlier calls returned; at the end successes +
\* failures is the number of files and the exit status is 0 exactly when
\* failures is 0.  When no file is found nothing is rendered and the exit
\* status is 1.
C12_Batch ==
    /\ RenderedInOrder
    /\ failures = Cardinality(FailedCalls)
    /\ (exit_code # -1 /\ Found # {}) =>
           /\ Len(rendered) = Cardinality(Found)
           /\ successes + failures = Cardinality(Found)
           /\ exit_code = 0 <=> failures = 0
    /\ (exit_code # -1 /\ Found = {}) => (rendered = <<>> /\ exit_code = 1)

\* A finished batch over files glob listed out of order, where the first call
\* failed and a later one succeeded.
C12_Witness ==
    /\ exit_code = 1
    /\ Len(rendered) >= 2
    /\ glob_result # stl_files
    /\ ~rendered[1][2]
    /\ rendered[Len(rendered)][2]

\* ------------------------------------------- the rotation's footprint ----
\* v and w have the same z and the same distance from the Z axis.
SameHeightAndRadius(v, w) ==
    v[3] = w[3] /\ v[1] * v[1] + v[2] * v[2] = w[1] * w[1] + w[2] * w[2]

\* C13: the rotation step keeps the number of faces and their order (face f
\* stays face f: each of its vertices keeps its height and its distance from
\* the Z axis), every vertex's z coordinate and every normal's z component;
\* only x and y components change.
C13_RotationFootprint ==
    [][pc = "rotate" =>
        /\ Len(vectors') = Len(vectors)
        /\ Len(normals') = Len(normals)
        /\ \A f \in 1..Len(vectors) :
               /\ \A j \in 1..3 : SameHeightAndRadius(vectors'[f][j], vectors[f][j])
               /\ SameHeightAndRadius(normals'[f], normals[f])]_vars

\* A rotated mesh of two faces whose vertices moved in x or y.
C13_Witness ==
    /\ AfterRotate
    /\ rotation = 270
    /\ Len(vectors) = 2
    /\ vectors # mesh0
    /\ \A f \in 1..2 : \A j \in 1..3 : vectors[f][j][3] = mesh0[f][j][3]

\* -------------------------------------------------- _parse_time_str ----
\* Strings are sequences of one-character strings.
Digits == {"0", "1", "2", "3", "4", "5", "6", "7", "8", "9"}

DigitVal(c) ==
    CASE c = "0" -> 0 [] c = "1" -> 1 [] c = "2" -> 2 [] c = "3" -> 3 [] c = "4" -> 4
      [] c = "5" -> 5 [] c = "6" -> 6 [] c = "7" -> 7 [] c = "8" -> 8 [] c = "9" -> 9

\* The last index of the run of digits that starts at a.
RECURSIVE RunEnd(_, _)
RunEnd(s, a) == IF a < Len(s) /\ s[a + 1] \in Digits THEN RunEnd(s, a + 1) ELSE a

\* int() of the digits s[a..b].
RECURSIVE IntOf(_, _, _)
IntOf(s, a, b) == IF a > b THEN 0 ELSE IntOf(s, a, b - 1) * 10 + DigitVal(s[b])

\* The three patterns with their multipliers: <<unit, character that must
\* not follow the unit ("" for none), multiplier>>.
\* The patterns with minutes counted as seconds.
TimePatternsMinuteSlip == << <<"h", "", 3600>>, <<"m", "s", 1>>, <<"s", "", 1>> >>

TimePatterns == << <<"h", "", 3600>>, <<"m", "s", 60>>, <<"s", "", 1>> >>

\* (\d+)<unit> matches at a, the digits ending at b = RunEnd(s, a): the unit
\* follows the whole run (a shorter run is followed by a digit), and the
\* lookahead, if any, holds.
MatchesAt(s, a, b, pat) ==
    /\ s[a] \in Digits
    /\ b < Len(s)
    /\ s[b + 1] = pat[1]
    /\ ~(pat[2] # "" /\ b + 2 <= Len(s) /\ s[b + 2] = pat[2])

\* The starts at which the pattern matches.
MatchStarts(s, pat) == {a \in 1..Len(s) : MatchesAt(s, a, RunEnd(s, a), pat)}

\* re.search: int(m.group(1)) of the leftmost match as <<n>>, <<>> without one.
Search(s, pat) ==
    IF MatchStarts(s, pat) = {} THEN <<>>
    ELSE <<IntOf(s, SetMin(MatchStarts(s, pat)), RunEnd(s, SetMin(MatchStarts(s, pat))))>>

\* total += int(m.group(1)) * multiplier, for the match m (if any) of pattern k.
Contribution(s, k) ==
    IF Search(s, TimePatterns[k]) = <<>> THEN 0
    ELSE Search(s, TimePatterns[k])[1] * TimePatterns[k][3]

\* return total if matched else None
ParseTimeStr(s) ==
    IF \A k \in 1..3 : Search(s, TimePatterns[k]) = <<>> THEN <<>>
    ELSE <<Contribution(s, 1) + Contribution(s, 2) + Contribution(s, 3)>>

\* The arguments tried: every string of up to MaxLen of these characters, and
\* the strings written from components.
TimeChars == {"1", "2", "h", "m", "s", " "}

Strings == UNION {[1..n -> TimeChars] : n \in 0..MaxLen}

\* A component is <<digits, unit>>; a time is written from components of
\* different units, in any order, each followed by the separator sep.
Numbers == {<<"0">>, <<"7">>, <<"1", "2">>, <<"0", "5">>, <<"4", "5">>}

Components == Numbers \X {"h", "m", "s"}

ComponentLists ==
    {q \in UNION {[1..n -> Components] : n \in 1..3} :
        \A a, b \in DOMAIN q : a # b => q[a][2] # q[b][2]}

RECURSIVE Written(_, _, _)
Written(q, n, sep) ==
    IF n = 0 THEN <<>>
    ELSE Written(q, n - 1, sep) \o q[n][1] \o <<q[n][2]>> \o (IF n < Len(q) THEN sep ELSE <<>>)

ParseInit ==
    /\ RenderIdle /\ ConcIdle /\ BatchIdle /\ SliceIdle /\ LibIdle /\ CamIdle /\ PsIdle /\ UpdIdle /\ CsIdle
    /\ \/ time_parts = <<>> /\ time_str \in Strings
       \/ /\ time_parts \in ComponentLists
          /\ \E sep \in {<<>>, <<" ">>} : time_str = Written(time_parts, Len(time_parts), sep)
    /\ parsed = "pending"

ParseCall ==
    /\ parsed = "pending"
    /\ parsed' = ParseTimeStr(time_str)
    /\ UNCHANGED <<besidesParse, time_parts, time_str>>

ParseNext == ParseCall

ParseSpec == ParseInit /\ [][ParseNext]_parseVars

\* The number a digit string stands for.
NumberOf(d) ==
    CASE d = <<"0">> -> 0 [] d = <<"7">> -> 7 [] d = <<"1", "2">> -> 12
      [] d = <<"0", "5">> -> 5 [] d = <<"4", "5">> -> 45

SecondsPer(u) == CASE u = "h" -> 3600 [] u = "m" -> 60 [] u = "s" -> 1

RECURSIVE TotalSeconds(_, _)
TotalSeconds(q, n) ==
    IF n = 0 THEN 0 ELSE TotalSeconds(q, n - 1) + NumberOf(q[n][1]) * SecondsPer(q[n][2])

\* The string has no digit directly followed by h, m or s.
NoComponent(s) ==
    \A a \in 1..(Len(s) - 1) : ~(s[a] \in Digits /\ s[a + 1] \in {"h", "m", "s"})

\* C18: for a string written from a non-empty set of components <h>h, <m>m,
\* <s>s the value returned is 3600*h + 60*m + s, a missing component counting
\* as 0; for a string without any component, the empty string included, None
\* is returned.
C18_ParseTime ==
    parsed # "pending" =>
        /\ time_parts # <<>> => parsed = <<TotalSeconds(time_parts, Len(time_parts))>>
        /\ NoComponent(time_str) => parsed = <<>>

\* A parsed string of three components not in h, m, s order, one parsed to 0
\* seconds, the empty string, and a string of characters without a component.
C18_Witness ==
    /\ parsed # "pending"
    /\ \/ Len(time_parts) = 3 /\ time_parts[1][2] = "s" /\ parsed # <<>>
       \/ time_str = <<>> /\ parsed = <<>>

\* ------------------------------------------------------------ slicer ----
\* if i >= 100: break
HeaderLines == 100

\* What earlier runs may have left in TEMP_DIR.
StaleFiles == {"a.gcode", "b.gcode"}

\* The text captured by ([\d.]+) on a filament line.
FilamentTexts == {<<"1", "2", ".", "5">>, <<"7">>, <<"1", ".", "2", ".", "3">>}

\* The text captured by (.+) on a printing-time line.
TimeTexts == {<<"1", "h", " ", "2", "m">>, <<"4", "5", "s", " ">>, <<"n", "o">>}

\* A metadata line: the number of lines matching neither pattern that
\* precede it, the pattern it matches, and the text of the pattern's group.
Skips == {0, 99}

GcodeLines ==
    [skip : Skips, kind : {"filament"}, text : FilamentTexts]
        \cup [skip : Skips, kind : {"time"}, text : TimeTexts]

Gcodes == UNION {[1..n -> GcodeLines] : n \in 0..MaxLines}

\* str.strip() for spaces.
RECURSIVE Strip(_)
Strip(t) ==
    IF t = <<>> THEN t
    ELSE IF Head(t) = " " THEN Strip(Tail(t))
    ELSE IF t[Len(t)] = " " THEN Strip(SubSeq(t, 1, Len(t) - 1))
    ELSE t

\* float(): a text of digits and points is a number when it has at most one
\* point and at least one digit; anything else is a ValueError.
PointsOf(t) == {k \in DOMAIN t : t[k] = "."}

DigitsOf(t) == SelectSeq(t, LAMBDA c : c \in Digits)

FloatOk(t) == Cardinality(PointsOf(t)) <= 1 /\ DigitsOf(t) # <<>>

RECURSIVE Pow10(_)
Pow10(n) == IF n = 0 THEN 1 ELSE 10 * Pow10(n - 1)

FloatOf(t) ==
    QN(IntOf(DigitsOf(t), 1, Len(DigitsOf(t))),
       IF PointsOf(t) = {} THEN 1 ELSE Pow10(Len(t) - SetMin(PointsOf(t))))

\* The scan that keeps the last filament line instead of the first.
RECURSIVE ScanLast(_, _, _, _, _)
ScanLast(g, k, seen, fg, pt) ==
    IF k > Len(g) \/ seen + g[k].skip >= HeaderLines THEN <<"end", fg, pt>>
    ELSE IF g[k].kind = "filament" /\ ~FloatOk(g[k].text) THEN <<"ValueError">>
    ELSE ScanLast(g, k + 1, seen + g[k].skip + 1,
                  IF g[k].kind = "filament" THEN <<FloatOf(g[k].text)>> ELSE fg,
                  IF pt = <<>> /\ g[k].kind = "time" THEN ParseTimeStr(Strip(g[k].text)) ELSE pt)

\* The loop of lines 84-100 from metadata line k on, seen lines having been
\* read; fg and pt are filament_grams and print_time_seconds, <<>> for None.
\* Lines matching neither pattern change nothing.
RECURSIVE Scan(_, _, _, _, _)
Scan(g, k, seen, fg, pt) ==
    IF k > Len(g) \/ seen + g[k].skip >= HeaderLines THEN <<"end", fg, pt>>
    ELSE IF fg = <<>> /\ g[k].kind = "filament" /\ ~FloatOk(g[k].text) THEN <<"ValueError">>
    ELSE LET fg2 == IF fg = <<>> /\ g[k].kind = "filament"
                    THEN <<FloatOf(g[k].text)>> ELSE fg
             pt2 == IF pt = <<>> /\ g[k].kind = "time"
                    THEN ParseTimeStr(Strip(g[k].text)) ELSE pt
         IN  IF fg2 # <<>> /\ pt2 # <<>> THEN <<"end", fg2, pt2>>
             ELSE Scan(g, k + 1, seen + g[k].skip + 1, fg2, pt2)

None == <<"None">>

\* Lines 102-111 and 116-118: what the scan makes slice_model return.
Returned(scan) ==
    IF scan[1] = "ValueError" THEN None
    ELSE IF scan[2] = <<>> \/ scan[3] = <<>> THEN None
    ELSE <<"dict", scan[2][1], scan[3][1]>>

SliceInit ==
    /\ RenderIdle /\ ConcIdle /\ BatchIdle /\ ParseIdle /\ LibIdle /\ CamIdle /\ PsIdle /\ UpdIdle /\ CsIdle
    /\ sl_pc \in {"startup", "checks"}
    /\ config_exists \in BOOLEAN /\ stl_exists \in BOOLEAN
    /\ on_path \in BOOLEAN /\ tmp_writable \in BOOLEAN
    /\ temp_dir \in {"absent", "dir", "notdir"}
    /\ stale \in SUBSET StaleFiles
    /\ temp_dir # "dir" => stale = {}
    /\ cleaned = "no" /\ removed = {}
    /\ temp_gcode = "absent" /\ gcode = <<>> /\ returncode = -1 /\ unlink = "none"
    /\ sl_result = <<"pending">>

\* shutil.rmtree(TEMP_DIR) and os.makedirs(TEMP_DIR) both succeed.
Removable == tmp_writable /\ temp_dir # "notdir"

\* cleanup_stale_temp_files without the rmtree.
CleanupKeeps ==
    /\ sl_pc = "startup"
    /\ Removable
    /\ temp_dir' = "dir"
    /\ removed' = stale
    /\ cleaned' = "returned"
    /\ sl_pc' = "checks"
    /\ UNCHANGED <<besidesSlice, sliceInputs, stale, temp_gcode, gcode, returncode, unlink, sl_result>>

\* cleanup_stale_temp_files returns.
CleanupReturns ==
    /\ sl_pc = "startup"
    /\ Removable
    /\ temp_dir' = "dir"
    /\ stale' = {}
    /\ removed' = stale
    /\ cleaned' = "returned"
    /\ sl_pc' = "checks"
    /\ UNCHANGED <<besidesSlice, sliceInputs, temp_gcode, gcode, returncode, unlink, sl_result>>

\* rmtree or makedirs raises: TEMP_DIR is no directory, or /tmp cannot be written.
CleanupRaises ==
    /\ sl_pc = "startup"
    /\ ~Removable
    /\ stale' \in SUBSET stale
    /\ removed' = stale \ stale'
    /\ cleaned' = "raised"
    /\ sl_pc' = "done"
    /\ UNCHANGED <<besidesSlice, sliceInputs, temp_dir, temp_gcode, gcode, returncode, unlink, sl_result>>

\* Lines 53-63.
SliceChecks ==
    /\ sl_pc = "checks"
    /\ IF config_exists /\ stl_exists /\ on_path
       THEN sl_pc' = "mkdir" /\ UNCHANGED sl_result
       ELSE sl_pc' = "done" /\ sl_result' = None
    /\ UNCHANGED <<besidesSlice, sliceInputs, temp_dir, stale, cleaned, removed, temp_gcode, gcode, returncode, unlink>>

\* os.makedirs(TEMP_DIR, exist_ok=True) succeeds.
Creatable == temp_dir = "dir" \/ (temp_dir = "absent" /\ tmp_writable)

\* Lines 65-66.
SliceMkdir ==
    /\ sl_pc = "mkdir"
    /\ Creatable
    /\ temp_dir' = "dir"
    /\ sl_pc' = "run"
    /\ UNCHANGED <<besidesSlice, sliceInputs, stale, cleaned, removed, temp_gcode, gcode, returncode, unlink, sl_result>>

\* Line 65 raises, outside the try statement.
SliceMkdirRaises ==
    /\ sl_pc = "mkdir"
    /\ ~Creatable
    /\ sl_result' = <<"raised">>
    /\ sl_pc' = "done"
    /\ UNCHANGED <<besidesSlice, sliceInputs, temp_dir, stale, cleaned, removed, temp_gcode, gcode, returncode, unlink>>

FileStates == {"absent", "readable", "unreadable"}

\* subprocess.run raises TimeoutExpired; the slicer may have begun its output.
SliceTimesOut ==
    /\ sl_pc = "run"
    /\ temp_gcode' \in FileStates
    /\ sl_result' = None
    /\ sl_pc' = "finally"
    /\ UNCHANGED <<besidesSlice, sliceInputs, temp_dir, stale, cleaned, removed, gcode, returncode, unlink>>

\* subprocess.run raises another exception: the binary cannot be started.
SliceCannotStart ==
    /\ sl_pc = "run"
    /\ sl_result' = None
    /\ sl_pc' = "finally"
    /\ UNCHANGED <<besidesSlice, sliceInputs, temp_dir, stale, cleaned, removed, temp_gcode, gcode, returncode, unlink>>

\* Lines 76-78: the slicer exits with a code other than 0.
SliceFails ==
    /\ sl_pc = "run"
    /\ returncode' = 1
    /\ temp_gcode' \in FileStates
    /\ sl_result' = None
    /\ sl_pc' = "finally"
    /\ UNCHANGED <<besidesSlice, sliceInputs, temp_dir, stale, cleaned, removed, gcode, unlink>>

\* The slicer exits with code 0, having written this file or none.
SliceExits ==
    /\ sl_pc = "run"
    /\ returncode' = 0
    /\ temp_gcode' \in FileStates
    /\ gcode' \in Gcodes
    /\ temp_gcode' = "absent" => gcode' = <<>>
    /\ sl_pc' = "scan"
    /\ UNCHANGED <<besidesSlice, sliceInputs, temp_dir, stale, cleaned, removed, unlink, sl_result>>

\* Lines 80-111, and 116-118 when open() or float() raises.
SliceScan ==
    /\ sl_pc = "scan"
    /\ sl_result' = IF temp_gcode = "readable"
                    THEN Returned(Scan(gcode, 1, 0, <<>>, <<>>)) ELSE None
    /\ sl_pc' = "finally"
    /\ UNCHANGED <<besidesSlice, sliceInputs, temp_dir, stale, cleaned, removed, temp_gcode, gcode, returncode, unlink>>

\* Lines 119-122 without the unlink.
SliceLeaves ==
    /\ sl_pc = "finally"
    /\ unlink' = IF temp_gcode = "absent" THEN "none" ELSE "ok"
    /\ sl_pc' = "done"
    /\ UNCHANGED <<besidesSlice, sliceInputs, temp_dir, stale, cleaned, removed, temp_gcode, gcode, returncode, sl_result>>

\* Lines 119-122: the file, if there is one, is removed.
SliceUnlink ==
    /\ sl_pc = "finally"
    /\ temp_gcode' = "absent"
    /\ unlink' = IF temp_gcode = "absent" THEN "none" ELSE "ok"
    /\ sl_pc' = "done"
    /\ UNCHANGED <<besidesSlice, sliceInputs, temp_dir, stale, cleaned, removed, gcode, returncode, sl_result>>

\* Lines 121-124: os.unlink raises and the exception is passed over.
SliceUnlinkFails ==
    /\ sl_pc = "finally"
    /\ temp_gcode # "absent"
    /\ unlink' = "failed"
    /\ sl_pc' = "done"
    /\ UNCHANGED <<besidesSlice, sliceInputs, temp_dir, stale, cleaned, removed, temp_gcode, gcode, returncode, sl_result>>

SliceNext ==
    \/ CleanupReturns
    \/ CleanupRaises
    \/ SliceChecks
    \/ SliceMkdir
    \/ SliceMkdirRaises
    \/ SliceTimesOut
    \/ SliceCannotStart
    \/ SliceFails
    \/ SliceExits
    \/ SliceScan
    \/ SliceUnlink
    \/ SliceUnlinkFails

SliceSpec == SliceInit /\ [][SliceNext]_sliceVars

\* C14: slice_model never raises; on every failure, a temp directory that
\* cannot be created included, None is what it returns.
C14_SliceNeverRaises == sl_result # <<"raised">>

\* The position of metadata line k in the file, counted from 0.
RECURSIVE LineIndex(_, _)
LineIndex(g, k) == IF k = 0 THEN -1 ELSE LineIndex(g, k - 1) + g[k].skip + 1

\* The metadata lines of a kind among the first HeaderLines lines.
FilamentLines(g) ==
    {k \in DOMAIN g : g[k].kind = "filament" /\ LineIndex(g, k) < HeaderLines}

ParsableTimeLines(g) ==
    {k \in DOMAIN g : /\ g[k].kind = "time"
                      /\ LineIndex(g, k) < HeaderLines
                      /\ ParseTimeStr(Strip(g[k].text)) # <<>>}

IsDict(r) == r[1] = "dict"

\* C15 as stated: a dict is returned exactly when the slicer exited with 0
\* and the first 100 lines hold a filament line and a time line with a
\* parsable time.
C15_DictAsStated ==
    [][sl_pc = "scan" =>
        (IsDict(sl_result') <=>
            /\ returncode = 0
            /\ temp_gcode = "readable"
            /\ FilamentLines(gcode) # {}
            /\ ParsableTimeLines(gcode) # {})]_sliceVars

\* C15: a dict is returned exactly when the slicer exited with 0, the gcode
\* could be read, and its first 100 lines hold a filament line, the first of
\* which carries a number, and a time line with a parsable time; the values
\* are those of the first filament line and of the first time line with a
\* parsable time. In every other case the result is None.
C15_Dict ==
    [][sl_pc = "scan" =>
        /\ (IsDict(sl_result') <=>
              /\ returncode = 0
              /\ temp_gcode = "readable"
              /\ FilamentLines(gcode) # {}
              /\ FloatOk(gcode[SetMin(FilamentLines(gcode))].text)
              /\ ParsableTimeLines(gcode) # {})
        /\ IsDict(sl_result') =>
              /\ sl_result'[2] = FloatOf(gcode[SetMin(FilamentLines(gcode))].text)
              /\ <<sl_result'[3]>> =
                    ParseTimeStr(Strip(gcode[SetMin(ParsableTimeLines(gcode))].text))
        /\ ~IsDict(sl_result') => sl_result' = None]_sliceVars

\* A dict returned from a file with two filament lines of different numbers,
\* or with a time line that cannot be parsed before one that can.
C15_Witness ==
    /\ sl_pc = "done"
    /\ IsDict(sl_result)
    /\ \/ Cardinality({gcode[k].text : k \in FilamentLines(gcode)}) = 2
       \/ \E k \in DOMAIN gcode :
             /\ gcode[k].kind = "time"
             /\ k < SetMin(ParsableTimeLines(gcode))

\* C16 as stated: once the temporary path is chosen, the file does not exist
\* when slice_model returns, whatever the outcome.
C16_TempGoneAsStated ==
    sl_pc = "done" /\ cleaned # "raised" /\ sl_result \notin {<<"raised">>, <<"pending">>}
        => temp_gcode = "absent"

\* C16: once the temporary path is chosen, the file does not exist when
\* slice_model returns, whatever the outcome, unless os.unlink failed on it.
C16_TempGone ==
    sl_pc = "done" /\ cleaned # "raised" /\ sl_result \notin {<<"raised">>, <<"pending">>}
        => temp_gcode = "absent" \/ unlink = "failed"

\* A return after a time-out that left a file, the file removed.
C16_Witness ==
    /\ sl_pc = "done"
    /\ returncode = -1
    /\ sl_result = None
    /\ unlink = "ok"
    /\ temp_gcode = "absent"

\* C17: after cleanup_stale_temp_files returns, TEMP_DIR exists and is
\* empty, whether it was absent, empty or held files before.
C17_CleanupEmpties ==
    [][sl_pc = "startup" /\ cleaned' = "returned" =>
        temp_dir' = "dir" /\ stale' = {} /\ temp_gcode' = "absent"]_sliceVars

\* cleanup_stale_temp_files has returned; TEMP_DIR held files before the call.
C17_Witness ==
    /\ cleaned = "returned"
    /\ sl_pc = "checks"
    /\ temp_dir = "dir"
    /\ stale = {}
    /\ removed = StaleFiles

\* ------------------------------------------------ update_library_item ----
\* The item's stlFile when set, and the names derived from it.
StlName == "bin.stl"

OrthoName == "bin.png"

PerspectiveName == "bin-perspective.png"

Angles == <<90, 180, 270>>

RotName(angle) ==
    CASE angle = 90 -> "bin-perspective-90.png"
      [] angle = 180 -> "bin-perspective-180.png"
      [] angle = 270 -> "bin-perspective-270.png"

RotNames == {RotName(Angles[k]) : k \in DOMAIN Angles}

DerivedNames == {OrthoName, PerspectiveName} \cup RotNames

\* Another image of the library an item may point to.
OtherName == "custom.png"

\* The perspective image generate_rotation_previews derives from OtherName,
\* and its rotation variants.
OtherPerspective == "custom-perspective.png"

OtherRotName(angle) ==
    CASE angle = 90 -> "custom-perspective-90.png"
      [] angle = 180 -> "custom-perspective-180.png"
      [] angle = 270 -> "custom-perspective-270.png"

Fields == {"imageUrl", "perspectiveImageUrl"}

\* ortho_name for imageUrl, perspective_name for perspectiveImageUrl.
NameOf(field) == IF field = "imageUrl" THEN OrthoName ELSE PerspectiveName

LibInit ==
    /\ RenderIdle /\ ConcIdle /\ BatchIdle /\ ParseIdle /\ SliceIdle /\ CamIdle /\ PsIdle /\ UpdIdle /\ CsIdle
    /\ lib_pc \in {"start", "gp_start"}
    /\ force \in (IF lib_pc = "start" THEN BOOLEAN ELSE {FALSE})
    /\ item_stl \in (IF lib_pc = "start" THEN {"", StlName} ELSE {StlName})
    /\ item \in [Fields -> {"", OrthoName, PerspectiveName, OtherName}]
    /\ lib_pc = "gp_start" => item["imageUrl"] # PerspectiveName
    /\ item0 = item
    /\ index_file = (IF lib_pc = "gp_start" THEN item ELSE <<>>)
    /\ disk \in SUBSET (DerivedNames \cup {OtherName, StlName}
                          \cup (IF lib_pc = "start" THEN {} ELSE {OtherPerspective}))
    /\ attempts = {}
    /\ modified = FALSE
    /\ angle_at = 0
    /\ lib_result = "pending"

PyBool(b) == IF b THEN "True" ELSE "False"

\* Lines 1104-1119.
LibStart ==
    /\ lib_pc = "start"
    /\ IF item_stl = "" \/ item_stl \notin disk
       THEN lib_pc' = "done" /\ lib_result' = "False"
       ELSE lib_pc' = "imageUrl" /\ UNCHANGED lib_result
    /\ UNCHANGED <<besidesLib, force, item_stl, item, item0, index_file, disk, attempts, modified, angle_at>>

\* Lines 1125 and 1146: the field is to be looked after.
Stale(field) == force \/ item[field] = "" \/ item[field] \notin disk

\* Lines 1126 and 1147: the derived image is to be rendered.
Wanted(field) == Stale(field) /\ (force \/ NameOf(field) \notin disk)

\* Lines 1138 and 1164 taken as always true.
DiffersAlways(current, name) == TRUE

\* Lines 1138 and 1164.
Differs(current, name) == current # name

\* Lines 1138-1140 and 1164-1166.
Point(field) ==
    IF Differs(item[field], NameOf(field))
    THEN item' = [item EXCEPT ![field] = NameOf(field)] /\ modified' = TRUE
    ELSE UNCHANGED <<item, modified>>

\* The block that follows the one of a field.
After(field) == IF field = "imageUrl" THEN "perspectiveImageUrl" ELSE "rotations"

\* The field's block without a render: nothing to do, or the derived image
\* is on disk already.
LibKeep ==
    /\ lib_pc \in Fields
    /\ ~Wanted(lib_pc)
    /\ IF Stale(lib_pc) THEN Point(lib_pc) ELSE UNCHANGED <<item, modified>>
    /\ lib_pc' = After(lib_pc)
    /\ angle_at' = IF After(lib_pc) = "rotations" THEN 1 ELSE angle_at
    /\ UNCHANGED <<besidesLib, force, item_stl, item0, index_file, disk, attempts, lib_result>>

\* The field's block, the render function returning True.
LibRender ==
    /\ lib_pc \in Fields
    /\ Wanted(lib_pc)
    /\ attempts' = attempts \cup {NameOf(lib_pc)}
    /\ disk' = disk \cup {NameOf(lib_pc)}
    /\ Point(lib_pc)
    /\ lib_pc' = After(lib_pc)
    /\ angle_at' = IF After(lib_pc) = "rotations" THEN 1 ELSE angle_at
    /\ UNCHANGED <<besidesLib, force, item_stl, item0, index_file, lib_result>>

\* The field's block, the render function returning False: return modified.
LibRenderFails ==
    /\ lib_pc \in Fields
    /\ Wanted(lib_pc)
    /\ attempts' = attempts \cup {NameOf(lib_pc)}
    /\ lib_result' = PyBool(modified)
    /\ lib_pc' = "done"
    /\ UNCHANGED <<besidesLib, force, item_stl, item, item0, index_file, disk, modified, angle_at>>

\* Lines 1169-1187: after the last angle, return modified.
Turn ==
    /\ IF angle_at = Len(Angles)
       THEN lib_pc' = "done" /\ lib_result' = PyBool(modified)
       ELSE UNCHANGED <<lib_pc, lib_result>>
    /\ angle_at' = angle_at + 1

\* An angle whose image is on disk.
LibRotKeep ==
    /\ lib_pc = "rotations"
    /\ ~(force \/ RotName(Angles[angle_at]) \notin disk)
    /\ Turn
    /\ UNCHANGED <<besidesLib, force, item_stl, item, item0, index_file, disk, attempts, modified>>

\* An angle whose image is rendered; a failure is only printed.
LibRotRender ==
    /\ lib_pc = "rotations"
    /\ force \/ RotName(Angles[angle_at]) \notin disk
    /\ attempts' = attempts \cup {RotName(Angles[angle_at])}
    /\ \E success \in BOOLEAN :
          disk' = IF success THEN disk \cup {RotName(Angles[angle_at])} ELSE disk
    /\ Turn
    /\ UNCHANGED <<besidesLib, force, item_stl, item, item0, index_file, modified>>

\* ------------------- generate_rotation_previews.generate_all_perspectives ----
\* Lines 114-118, find_stl_for_item (31-70) for the item "bin": its STL is in the library
\* or the item is passed over.
GpStart ==
    /\ lib_pc = "gp_start"
    /\ lib_pc' = IF item_stl \in disk THEN "gp_persp" ELSE "gp_save"
    /\ UNCHANGED <<besidesLib, force, item_stl, item, item0, index_file, disk, attempts, modified,
                   angle_at, lib_result>>

\* derive_perspective_filename (73-83): the basename of imageUrl with
\* "-perspective.png" for ".png", or the item id with "-perspective.png".
DerivePerspective(image_url) ==
    CASE image_url = "" -> PerspectiveName
      [] image_url = OrthoName -> PerspectiveName
      [] image_url = OtherName -> OtherPerspective

\* perspective_url.endswith('-perspective.png'), line 152.
Standard(perspective_url) == perspective_url \in {PerspectiveName, OtherPerspective}

\* Lines 157-159: the name of a rotation variant.
GpRotName(perspective_url, angle) ==
    IF perspective_url = PerspectiveName THEN RotName(angle) ELSE OtherRotName(angle)

\* Where the loop goes once perspective_url is known (152-154): to the
\* rotation variants, or past the item to the end of the library's loop.
GpAfter(perspective_url) == IF Standard(perspective_url) THEN "gp_rot" ELSE "gp_save"

\* Lines 121-122 with perspectiveImageUrl set: the item is left alone.
GpKeep ==
    /\ lib_pc = "gp_persp"
    /\ item["perspectiveImageUrl"] # ""
    /\ lib_pc' = GpAfter(item["perspectiveImageUrl"])
    /\ angle_at' = 1
    /\ UNCHANGED <<besidesLib, force, item_stl, item, item0, index_file, disk, attempts, modified,
                   lib_result>>

\* Lines 124-128 and 146-149: the derived image is on disk and is added.
GpAdd ==
    /\ lib_pc = "gp_persp"
    /\ item["perspectiveImageUrl"] = ""
    /\ DerivePerspective(item["imageUrl"]) \in disk
    /\ item' = [item EXCEPT !["perspectiveImageUrl"] = DerivePerspective(item["imageUrl"])]
    /\ modified' = TRUE
    /\ lib_pc' = "gp_rot"
    /\ angle_at' = 1
    /\ UNCHANGED <<besidesLib, force, item_stl, item0, index_file, disk, attempts, lib_result>>

\* Lines 129-149: the derived image is rendered and added.
GpRender ==
    /\ lib_pc = "gp_persp"
    /\ item["perspectiveImageUrl"] = ""
    /\ DerivePerspective(item["imageUrl"]) \notin disk
    /\ attempts' = attempts \cup {DerivePerspective(item["imageUrl"])}
    /\ disk' = disk \cup {DerivePerspective(item["imageUrl"])}
    /\ item' = [item EXCEPT !["perspectiveImageUrl"] = DerivePerspective(item["imageUrl"])]
    /\ modified' = TRUE
    /\ lib_pc' = "gp_rot"
    /\ angle_at' = 1
    /\ UNCHANGED <<besidesLib, force, item_stl, item0, index_file, lib_result>>

\* Lines 129-149 with the failed render treated as a success: the name is
\* put into the item although no file was written.
GpRenderFailsAdds ==
    /\ lib_pc = "gp_persp"
    /\ item["perspectiveImageUrl"] = ""
    /\ DerivePerspective(item["imageUrl"]) \notin disk
    /\ attempts' = attempts \cup {DerivePerspective(item["imageUrl"])}
    /\ item' = [item EXCEPT !["perspectiveImageUrl"] = DerivePerspective(item["imageUrl"])]
    /\ modified' = TRUE
    /\ lib_pc' = "gp_save"
    /\ UNCHANGED <<besidesLib, force, item_stl, item0, index_file, disk, angle_at, lib_result>>

\* Lines 129-143: the render fails, the failure is counted and the item is
\* passed over.
GpRenderFails ==
    /\ lib_pc = "gp_persp"
    /\ item["perspectiveImageUrl"] = ""
    /\ DerivePerspective(item["imageUrl"]) \notin disk
    /\ attempts' = attempts \cup {DerivePerspective(item["imageUrl"])}
    /\ lib_result' = "False"
    /\ lib_pc' = "gp_save"
    /\ UNCHANGED <<besidesLib, force, item_stl, item, item0, index_file, disk, modified, angle_at>>

\* Lines 162-164: a variant that is on disk.
GpRotKeep ==
    /\ lib_pc = "gp_rot"
    /\ GpRotName(item["perspectiveImageUrl"], Angles[angle_at]) \in disk
    /\ lib_pc' = IF angle_at = Len(Angles) THEN "gp_save" ELSE lib_pc
    /\ angle_at' = angle_at + 1
    /\ UNCHANGED <<besidesLib, force, item_stl, item, item0, index_file, disk, attempts, modified,
                   lib_result>>

\* Lines 166-181: a variant is rendered; a failure is counted (lib_result
\* is "False" once total_failed is above 0).
GpRotRender ==
    /\ lib_pc = "gp_rot"
    /\ GpRotName(item["perspectiveImageUrl"], Angles[angle_at]) \notin disk
    /\ attempts' = attempts \cup {GpRotName(item["perspectiveImageUrl"], Angles[angle_at])}
    /\ lib_pc' = IF angle_at = Len(Angles) THEN "gp_save" ELSE lib_pc
    /\ \E success \in BOOLEAN :
          /\ disk' = IF success
                     THEN disk \cup {GpRotName(item["perspectiveImageUrl"], Angles[angle_at])}
                     ELSE disk
          /\ lib_result' = IF success THEN lib_result ELSE "False"
    /\ angle_at' = angle_at + 1
    /\ UNCHANGED <<besidesLib, force, item_stl, item, item0, index_file, modified>>

\* Lines 183-199, after the library's items: index.json is written from the
\* items in memory if index_modified, and total_failed == 0 is returned.
GpSave ==
    /\ lib_pc = "gp_save"
    /\ index_file' = IF modified THEN item ELSE index_file
    /\ lib_result' = IF lib_result = "pending" THEN "True" ELSE lib_result
    /\ lib_pc' = "gp_done"
    /\ UNCHANGED <<besidesLib, force, item_stl, item, item0, disk, attempts, modified, angle_at>>

LibNext ==
    \/ LibStart
    \/ LibKeep
    \/ LibRender
    \/ LibRenderFails
    \/ LibRotKeep
    \/ LibRotRender
    \/ GpStart
    \/ GpKeep
    \/ GpAdd
    \/ GpRender
    \/ GpRenderFails
    \/ GpRotKeep
    \/ GpRotRender
    \/ GpSave

LibSpec == LibInit /\ [][LibNext]_libVars

\* C19: update_library_item returns True exactly when it changed the item's
\* imageUrl or perspectiveImageUrl, and False otherwise, also when it returns
\* early for a missing STL or a failed render.
C19_TrueIffChanged ==
    lib_pc = "done" => (lib_result = "True" <=> item # item0)

\* A return of True after the perspective render failed, the imageUrl having
\* been changed before; and a return of False after the ortho render failed.
C19_Witness ==
    /\ lib_pc = "done"
    /\ \/ /\ lib_result = "True"
          /\ PerspectiveName \in attempts /\ PerspectiveName \notin disk
          /\ item["imageUrl"] # item0["imageUrl"]
       \/ /\ lib_result = "False"
          /\ OrthoName \in attempts /\ OrthoName \notin disk

\* C20: for an item whose stlFile is on disk, a render is attempted of every
\* one of the five derived images that is missing, and of all five when force
\* is set. (A name not attempted is on disk at the end exactly when it was at
\* the start.)
C20_MissingAttempted ==
    lib_pc = "done" /\ item_stl # "" /\ item_stl \in disk =>
        \A name \in DerivedNames : force \/ name \notin disk => name \in attempts

\* ------------------------------------------- properties of the renderer ----
\* A pixel coordinate x lies in [0, n - 1] (NaN coordinates make the loop raise
\* before anything is written).
VertexInImage(x, n) == IsNaN(x) \/ (QLeq(QI(0), x) /\ QLeq(x, QI(n - 1)))

\* The pixels whose depth or colour a step changes.
Touched == {p \in DOMAIN depth_buf : depth_buf'[p] # depth_buf[p] \/ color_buf'[p] # color_buf[p]}

\* C22: during the rasterization loop every projected vertex maps inside the
\* image, each triangle's scanned box lies inside the image, and every write
\* to color_buf or depth_buf is to a pixel of that box, with column in
\* [0, W-1] and row in [0, H-1]; the buffers keep their shape.
C22_WritesInImage ==
    [][pc = "raster" =>
        /\ \A k \in 1..Len(px) : \A j \in 1..3 :
               VertexInImage(px[k][j], W) /\ VertexInImage(py[k][j], H)
        /\ DOMAIN depth_buf' = Pixels(W, H) /\ DOMAIN color_buf' = Pixels(W, H)
        /\ (~HasNaN(px[i]) /\ ~HasNaN(py[i])) =>
               /\ BBox(px[i], py[i], W, H) \subseteq Pixels(W, H)
               /\ Touched \subseteq BBox(px[i], py[i], W, H)
               /\ \A p \in Touched : p[1] \in 0..(H - 1) /\ p[2] \in 0..(W - 1)]_vars

\* A finished loop over an image of three or more pixels each way, with a
\* written pixel and a triangle whose scanned box reaches the last column and
\* the last row.
C22_Witness ==
    /\ pc = "save"
    /\ W >= 3 /\ H >= 3
    /\ \E p \in DOMAIN depth_buf : depth_buf[p][1] # Inf
    /\ \E k \in 1..Len(px) : <<H - 1, W - 1>> \in BBox(px[k], py[k], W, H)

\* Triangle k is the first, in processing order, of the triangles C that has
\* the smallest of the depths D.
FirstNearest(D, C, k) ==
    /\ k \in C
    /\ \A j \in C : ~FlLess(D[j], D[k])
    /\ \A j \in C : j < k => FlLess(D[k], D[j])

\* A covered pixel of colour c shows the first of its nearest triangles.
FirstNearestShown(D, C, c) ==
    C # {} => \E k \in C : FirstNearest(D, C, k) /\ c = Shaded(face_rgb[k])

\* C24: when two triangles have the same interpolated depth at a pixel, the
\* one processed first keeps the pixel: at the end of the loop a covered pixel
\* has the colour of the first triangle, in processing order, among those of
\* smallest depth there.
C24_FirstOfTiesKept ==
    pc = "save" =>
        \A p \in DOMAIN color_buf :
            FirstNearestShown(DepthsAt(p, Len(px)), Covering(DepthsAt(p, Len(px))),
                              color_buf[p])

\* Two triangles of different colours tie for the smallest depth.
TiedNearest(D, C) ==
    \E k, j \in C :
        /\ k < j
        /\ D[k] = D[j]
        /\ face_rgb[k] # face_rgb[j]
        /\ FirstNearest(D, C, k)

\* A finished loop with a pixel where two triangles of different colours have
\* the same, smallest depth.
C24_Witness ==
    /\ pc = "save"
    /\ \E p \in DOMAIN color_buf :
           TiedNearest(DepthsAt(p, Len(px)), Covering(DepthsAt(p, Len(px))))

\* Depth a is not greater than depth b.
NotAbove(a, b) == b = NoDepth \/ (a # NoDepth /\ ~FlLess(b, a))

\* z is the smallest of the depths D of the covering triangles C, +infinity
\* when there is none.
IsMinDepth(D, C, z) ==
    IF C = {} THEN z = NoDepth
    ELSE (\E k \in C : z = D[k]) /\ \A k \in C : NotAbove(z, D[k])

\* C26: in the rasterization loop the depth-buffer value of a pixel never
\* increases, and when the loop has ended it is the smallest interpolated
\* depth over the non-skipped triangles covering the pixel, +infinity when
\* there is none, in whatever order the faces are stored, ties included.
C26_DepthIsMinimum ==
    /\ [](pc = "save" =>
            \A p \in DOMAIN depth_buf :
                IsMinDepth(DepthsAt(p, Len(px)), Covering(DepthsAt(p, Len(px))),
                           depth_buf[p]))
    /\ [][pc = "raster" =>
            \A p \in DOMAIN depth_buf : NotAbove(depth_buf'[p], depth_buf[p])]_vars

\* A finished loop with a pixel covered by a farther triangle processed after
\* a nearer one, and a pixel that nothing covers.
C26_Witness ==
    /\ pc = "save"
    /\ \E p \in DOMAIN depth_buf :
           \E k, j \in Covering(DepthsAt(p, Len(px))) :
               k < j /\ FlLess(DepthsAt(p, Len(px))[k], DepthsAt(p, Len(px))[j])
    /\ \E p \in DOMAIN depth_buf : depth_buf[p] = NoDepth

\* ------------------------------------------------------------- camera ----
\* Vectors of rationals.
QVec(v) == <<QI(v[1]), QI(v[2]), QI(v[3])>>

QVSub(a, b) == <<QSub(a[1], b[1]), QSub(a[2], b[2]), QSub(a[3], b[3])>>

QVDot(a, b) == QAdd(QAdd(QMul(a[1], b[1]), QMul(a[2], b[2])), QMul(a[3], b[3]))

\* np.cross
QCross(a, b) ==
    << QSub(QMul(a[2], b[3]), QMul(a[3], b[2])),
       QSub(QMul(a[3], b[1]), QMul(a[1], b[3])),
       QSub(QMul(a[1], b[2]), QMul(a[2], b[1])) >>

\* The square root of a rational that is a square.
QSqrt(q) == <<Isqrt(q[1]), Isqrt(q[2])>>

\* np.linalg.norm: along an axis the absolute value of the one component,
\* else the root of the sum of squares.
QNorm(v) ==
    IF Cardinality({k \in 1..3 : v[k][1] # 0}) <= 1
    THEN QAbs(QAdd(QAdd(v[1], v[2]), v[3]))
    ELSE QSqrt(QVDot(v, v))

\* v /= np.linalg.norm(v)
QUnit(v) == <<QDiv(v[1], QNorm(v)), QDiv(v[2], QNorm(v)), QDiv(v[3], QNorm(v))>>

\* <<sin, cos>> of the tilts 0, 2.5, 16.3, 36.9, 53.1 and 90 degrees.
CamTilts ==
    { <<QI(0), QI(1)>>, <<QN(45, 1013), QN(1012, 1013)>>, <<QN(7, 25), QN(24, 25)>>,
      <<QN(3, 5), QN(4, 5)>>, <<QN(4, 5), QN(3, 5)>>, <<QI(1), QI(0)>> }

\* The bounds of the box and of the sheet of the face catalogue.
CamBoxes == { << <<0, 0, 0>>, <<4, 4, 2>> >>, << <<0, 0, 10>>, <<3, 4, 10>> >> }

\* The corners of a box.
Corners(b) == {<<b[x][1], b[y][2], b[z][3]>> : x \in 1..2, y \in 1..2, z \in 1..2}

\* Two corners of equal y and z, the second of larger x.
Probes(b) ==
    {q \in Corners(b) \X Corners(b) : q[1][2] = q[2][2] /\ q[1][3] = q[2][3] /\ q[1][1] < q[2][1]}

CamInit ==
    /\ RenderIdle /\ ConcIdle /\ BatchIdle /\ ParseIdle /\ SliceIdle /\ LibIdle /\ PsIdle /\ UpdIdle /\ CsIdle
    /\ cam_at = "place"
    /\ cam_sc \in CamTilts
    /\ cam_box \in CamBoxes
    /\ probe \in Probes(cam_box)
    /\ cam_eye = <<>> /\ cam_forward = <<>> /\ cam_world_up = <<>>
    /\ cam_right = <<>> /\ cam_upv = <<>> /\ probe_ndc = <<>>

\* cam_pos = centroid + (0, -cam_dist * sin(tilt), cam_dist * cos(tilt))
Eye(c, d, sc) == <<c[1], QSub(c[2], QMul(d, sc[1])), QAdd(c[3], QMul(d, sc[2]))>>

\* Lines 270-280.
CamPlace ==
    /\ cam_at = "place"
    /\ cam_eye' = Eye(Centroid(cam_box[1], cam_box[2]), CamDist(cam_box[1], cam_box[2]), cam_sc)
    /\ cam_forward' = QUnit(QVSub(Centroid(cam_box[1], cam_box[2]), cam_eye'))
    /\ cam_at' = "worldup"
    /\ UNCHANGED <<besidesCam, cam_sc, cam_box, cam_world_up, cam_right, cam_upv, probe, probe_ndc>>

\* world_up kept at +Z whatever the direction of view.
WorldUpZ(f) == <<QI(0), QI(0), QI(1)>>

\* Lines 282-284: -Y when abs(forward . (0, 0, 1)) > 0.999.
WorldUpFor(f) ==
    IF QLess(QN(999, 1000), QAbs(f[3])) THEN <<QI(0), QI(-1), QI(0)>>
    ELSE <<QI(0), QI(0), QI(1)>>

CamWorldUp ==
    /\ cam_at = "worldup"
    /\ cam_world_up' = WorldUpFor(cam_forward)
    /\ cam_at' = "basis"
    /\ UNCHANGED <<besidesCam, cam_sc, cam_box, cam_eye, cam_forward, cam_right, cam_upv, probe, probe_ndc>>

\* Lines 285-287.
CamBasis ==
    /\ cam_at = "basis"
    /\ cam_right' = QUnit(QCross(cam_forward, cam_world_up))
    /\ cam_upv' = QCross(cam_right', cam_forward)
    /\ cam_at' = "project"
    /\ UNCHANGED <<besidesCam, cam_sc, cam_box, cam_eye, cam_forward, cam_world_up, probe, probe_ndc>>

\* Lines 291-300 for one vertex: <<x_ndc, y_ndc>> in units of f_focal.
ProbeNdc(v, eye, d, f, r, u) ==
    << QDiv(QVDot(QVSub(QVec(v), eye), r), ZSafe(QVDot(QVSub(QVec(v), eye), f), d)),
       QDiv(QVDot(QVSub(QVec(v), eye), u), ZSafe(QVDot(QVSub(QVec(v), eye), f), d)) >>

CamProject ==
    /\ cam_at = "project"
    /\ probe_ndc' = [k \in 1..2 |->
                        ProbeNdc(probe[k], cam_eye, CamDist(cam_box[1], cam_box[2]),
                                 cam_forward, cam_right, cam_upv)]
    /\ cam_at' = "done"
    /\ UNCHANGED <<besidesCam, cam_sc, cam_box, cam_eye, cam_forward, cam_world_up, cam_right, cam_upv, probe>>

CamNext ==
    \/ CamPlace
    \/ CamWorldUp
    \/ CamBasis
    \/ CamProject

CamSpec == CamInit /\ [][CamNext]_camVars

ZeroVec == <<QI(0), QI(0), QI(0)>>

Orthonormal(r, u, f) ==
    /\ QVDot(r, r) = QI(1) /\ QVDot(u, u) = QI(1) /\ QVDot(f, f) = QI(1)
    /\ QVDot(r, u) = QI(0) /\ QVDot(u, f) = QI(0) /\ QVDot(r, f) = QI(0)

\* C23: at every tilt from 0 to 90 degrees, tilt 0 included, forward x
\* world_up is not the zero vector, and right, cam_up and forward are unit
\* vectors perpendicular to each other.
C23_BasisOrthonormal ==
    cam_at \in {"project", "done"} =>
        /\ QCross(cam_forward, cam_world_up) # ZeroVec
        /\ Orthonormal(cam_right, cam_upv, cam_forward)

\* A basis built with the -Y fallback at tilt 0, and one built with +Z.
C23_Witness ==
    /\ cam_at = "done"
    /\ \/ cam_sc[1] = QI(0) /\ cam_world_up = <<QI(0), QI(-1), QI(0)>>
       \/ cam_sc[1] = QN(3, 5) /\ cam_world_up = <<QI(0), QI(0), QI(1)>>

\* C25: at every tilt from 0 to 90 degrees the camera's right axis is +X and
\* its up axis does not point towards -Y, so of two mesh points of equal y and
\* z the one with the larger x never has the smaller x_ndc, hence never the
\* smaller pixel column.
C25_RightIsPlusX ==
    cam_at = "done" =>
        /\ cam_right = <<QI(1), QI(0), QI(0)>>
        /\ cam_upv[2][1] >= 0
        /\ QLeq(probe_ndc[1][1], probe_ndc[2][1])

\* --------------------------------------------------- process_stl_file ----
\* The output files of one model: orthographic, perspective, and the
\* perspective at 90, 180 and 270 degrees.
PngOrtho == "tray 2x1.png"

PngPersp == "tray 2x1-perspective.png"

PngRot(angle) ==
    CASE angle = 90 -> "tray 2x1-perspective-90.png"
      [] angle = 180 -> "tray 2x1-perspective-180.png"
      [] angle = 270 -> "tray 2x1-perspective-270.png"

PngNames == {PngOrtho, PngPersp} \cup {PngRot(Angles[k]) : k \in DOMAIN Angles}

\* An output directory without any of the images.
Nothing == [name \in PngNames |-> "absent"]

\* The images an object of a 3MF file finds in the output directory: none,
\* the orthographic one, or all of them.
MfDisks ==
    {Nothing, [Nothing EXCEPT ![PngOrtho] = "old"], [name \in PngNames |-> "old"]}

StlInit ==
    /\ RenderIdle /\ ConcIdle /\ BatchIdle /\ ParseIdle /\ SliceIdle /\ LibIdle /\ CamIdle /\ UpdIdle /\ CsIdle
    /\ ps_pc \in {"start", "mf_start"}
    /\ skip_existing_png \in BOOLEAN
    /\ render_both \in BOOLEAN
    /\ user_rotation \in (IF ps_pc = "start" THEN BOOLEAN ELSE {FALSE})
    /\ usable \in BOOLEAN
    /\ geometry \in (IF ps_pc = "start" THEN BOOLEAN ELSE {FALSE})
    /\ needs_rotation = FALSE
    /\ png0 \in (IF ps_pc = "start" THEN [PngNames -> {"absent", "old"}] ELSE {Nothing})
    /\ png = png0
    /\ invoked = {}
    /\ temp_stl_path = 0 /\ temps = {} /\ unremovable = {} /\ unclosed = {}
    /\ perspective_filename = "None"
    /\ rot_at = 0
    /\ objects \in (IF ps_pc = "start" THEN {0} ELSE 0 .. MaxObjects)
    /\ ps_result = "pending"

\* Lines 448-518: the early returns, and the orientation check, which can ask
\* for a rotation only when the geometry was loaded.
StlStart ==
    /\ ps_pc = "start"
    /\ IF usable
       THEN /\ ps_pc' = "rotate"
            /\ needs_rotation' \in (IF geometry THEN BOOLEAN ELSE {FALSE})
            /\ UNCHANGED ps_result
       ELSE /\ ps_pc' = "done"
            /\ ps_result' = "None"
            /\ UNCHANGED needs_rotation
    /\ UNCHANGED <<besidesPs, psArgs, png, invoked, psTemp, perspective_filename, rot_at, objects>>

\* Whether os.unlink succeeds on the next temporary file.
Unlinks == IF Cardinality(unremovable) < MaxStuck THEN BOOLEAN ELSE {TRUE}

\* cleanup_temp_file (82-93): the files left when os.unlink succeeds (ok) or
\* raises.
CleanupTempFile(path, files, ok) ==
    IF path # 0 /\ path \in files /\ ok THEN files \ {path} ELSE files

\* The files on which cleanup_temp_file's unlink raised.
UnlinkFailed(path, files, ok) ==
    IF path # 0 /\ path \in files /\ ~ok THEN unremovable \cup {path} ELSE unremovable

\* Lines 539: no rotation needed.
StlRotateSkip ==
    /\ ps_pc = "rotate"
    /\ ~needs_rotation
    /\ ps_pc' = "user"
    /\ UNCHANGED <<besidesPs, psArgs, needs_rotation, png, invoked, psTemp,
                   perspective_filename, rot_at, objects, ps_result>>

\* Lines 539-566: the rotated geometry is exported to a new temporary file.
StlRotate ==
    /\ ps_pc = "rotate"
    /\ needs_rotation
    /\ temps' = temps \cup {1}
    /\ temp_stl_path' = 1
    /\ ps_pc' = "user"
    /\ UNCHANGED <<besidesPs, psArgs, needs_rotation, png, invoked, unremovable, unclosed,
                   perspective_filename, rot_at, objects, ps_result>>

\* The transform or NamedTemporaryFile raises: no file, lines 573-578.
StlRotateNoFile ==
    /\ ps_pc = "rotate"
    /\ needs_rotation
    /\ needs_rotation' = FALSE
    /\ ps_pc' = "user"
    /\ UNCHANGED <<besidesPs, psArgs, png, invoked, psTemp, perspective_filename, rot_at,
                   objects, ps_result>>

\* temp_stl_fd.close() raises after the file was made and named (555-560):
\* line 578 forgets the path.
StlRotateCloseFails ==
    /\ ps_pc = "rotate"
    /\ needs_rotation
    /\ temps' = temps \cup {1}
    /\ unclosed' = unclosed \cup {1}
    /\ needs_rotation' = FALSE
    /\ ps_pc' = "user"
    /\ UNCHANGED <<besidesPs, psArgs, png, invoked, temp_stl_path, unremovable,
                   perspective_filename, rot_at, objects, ps_result>>

\* geometry.export raises (567-571): the file is cleaned up at once.
StlRotateExportFails ==
    /\ ps_pc = "rotate"
    /\ needs_rotation
    /\ \E ok \in Unlinks :
          /\ temps' = CleanupTempFile(1, temps \cup {1}, ok)
          /\ unremovable' = UnlinkFailed(1, temps \cup {1}, ok)
    /\ needs_rotation' = FALSE
    /\ ps_pc' = "user"
    /\ UNCHANGED <<besidesPs, psArgs, png, invoked, temp_stl_path, unclosed,
                   perspective_filename, rot_at, objects, ps_result>>

\* Lines 581-603: no user rotation, or no geometry to rotate.
StlUserSkip ==
    /\ ps_pc = "user"
    /\ ~(user_rotation /\ geometry)
    /\ ps_pc' = "ortho"
    /\ UNCHANGED <<besidesPs, psArgs, needs_rotation, png, invoked, psTemp,
                   perspective_filename, rot_at, objects, ps_result>>

\* The temporary file the user rotation exports to: the one of the automatic
\* rotation, or a new one.
UserTemp == IF temp_stl_path = 0 THEN 2 ELSE temp_stl_path

\* Lines 583-598: the file exists from line 593 or before; the export succeeds
\* or raises, the path stays set either way (599-601).
StlUserRotate ==
    /\ ps_pc = "user"
    /\ user_rotation /\ geometry
    /\ temps' = temps \cup {UserTemp}
    /\ temp_stl_path' = UserTemp
    /\ ps_pc' = "ortho"
    /\ UNCHANGED <<besidesPs, psArgs, needs_rotation, png, invoked, unremovable, unclosed,
                   perspective_filename, rot_at, objects, ps_result>>

\* The transform or NamedTemporaryFile raises: nothing is created.
StlUserNoFile ==
    /\ ps_pc = "user"
    /\ user_rotation /\ geometry
    /\ ps_pc' = "ortho"
    /\ UNCHANGED <<besidesPs, psArgs, needs_rotation, png, invoked, psTemp,
                   perspective_filename, rot_at, objects, ps_result>>

\* An existing output is skipped whatever the flag.
SkipAnyExisting(name, skip) == png[name] # "absent"

\* os.path.exists(png_path) and skip_existing_png
SkipExisting(name, skip) == png[name] # "absent" /\ skip

\* A renderer is called for the output name and returns success.
Render(name, success) ==
    /\ invoked' = invoked \cup {name}
    /\ png' = IF success THEN [png EXCEPT ![name] = "new"] ELSE png

\* Lines 606-607: the orthographic image exists and is skipped.
StlOrthoSkip ==
    /\ ps_pc = "ortho"
    /\ SkipExisting(PngOrtho, skip_existing_png)
    /\ ps_pc' = "persp"
    /\ UNCHANGED <<besidesPs, psArgs, needs_rotation, png, invoked, psTemp,
                   perspective_filename, rot_at, objects, ps_result>>

\* Lines 609-613, the render succeeding.
StlOrtho ==
    /\ ps_pc = "ortho"
    /\ ~SkipExisting(PngOrtho, skip_existing_png)
    /\ Render(PngOrtho, TRUE)
    /\ ps_pc' = "persp"
    /\ UNCHANGED <<besidesPs, psArgs, needs_rotation, psTemp, perspective_filename, rot_at,
                   objects, ps_result>>

\* Lines 609-617, the render failing: clean up and return None.
StlOrthoFails ==
    /\ ps_pc = "ortho"
    /\ ~SkipExisting(PngOrtho, skip_existing_png)
    /\ Render(PngOrtho, FALSE)
    /\ \E ok \in Unlinks :
          /\ temps' = CleanupTempFile(temp_stl_path, temps, ok)
          /\ unremovable' = UnlinkFailed(temp_stl_path, temps, ok)
    /\ ps_result' = "None"
    /\ ps_pc' = "done"
    /\ UNCHANGED <<besidesPs, psArgs, needs_rotation, temp_stl_path, unclosed,
                   perspective_filename, rot_at, objects>>

\* Lines 620-638 with render_both unset, or the perspective image skipped.
StlPerspSkip ==
    /\ ps_pc = "persp"
    /\ ~render_both \/ SkipExisting(PngPersp, skip_existing_png)
    /\ perspective_filename' = IF render_both THEN "set" ELSE "None"
    /\ ps_pc' = "rot"
    /\ rot_at' = 1
    /\ UNCHANGED <<besidesPs, psArgs, needs_rotation, png, invoked, psTemp, objects, ps_result>>

\* Lines 626-638: the perspective render, succeeding or not.
StlPersp ==
    /\ ps_pc = "persp"
    /\ render_both /\ ~SkipExisting(PngPersp, skip_existing_png)
    /\ \E success \in BOOLEAN :
          /\ Render(PngPersp, success)
          /\ perspective_filename' = IF success THEN "set" ELSE "None"
    /\ ps_pc' = "rot"
    /\ rot_at' = 1
    /\ UNCHANGED <<besidesPs, psArgs, needs_rotation, psTemp, objects, ps_result>>

\* Lines 659-673: the temporary file is cleaned up and the metadata returned.
StlFinish ==
    /\ ps_pc = "rot"
    /\ ~(render_both /\ perspective_filename = "set") \/ rot_at > Len(Angles)
    /\ \E ok \in Unlinks :
          /\ temps' = CleanupTempFile(temp_stl_path, temps, ok)
          /\ unremovable' = UnlinkFailed(temp_stl_path, temps, ok)
    /\ ps_result' = "metadata"
    /\ ps_pc' = "done"
    /\ UNCHANGED <<besidesPs, psArgs, needs_rotation, png, invoked, temp_stl_path, unclosed,
                   perspective_filename, rot_at, objects>>

\* Lines 642-646: a rotation variant that exists and is skipped.
StlRotSkip ==
    /\ ps_pc = "rot"
    /\ render_both /\ perspective_filename = "set" /\ rot_at <= Len(Angles)
    /\ SkipExisting(PngRot(Angles[rot_at]), skip_existing_png)
    /\ rot_at' = rot_at + 1
    /\ UNCHANGED <<besidesPs, psArgs, needs_rotation, png, invoked, psTemp,
                   perspective_filename, objects, ps_pc, ps_result>>

\* Lines 648-657: a rotation variant is rendered; the outcome is not looked at.
StlRot ==
    /\ ps_pc = "rot"
    /\ render_both /\ perspective_filename = "set" /\ rot_at <= Len(Angles)
    /\ ~SkipExisting(PngRot(Angles[rot_at]), skip_existing_png)
    /\ \E success \in BOOLEAN : Render(PngRot(Angles[rot_at]), success)
    /\ rot_at' = rot_at + 1
    /\ UNCHANGED <<besidesPs, psArgs, needs_rotation, psTemp, perspective_filename, objects,
                   ps_pc, ps_result>>

\* --------------------------------------------------- process_3mf_file ----
\* Lines 700-723: trimesh missing, the load raising, or no geometries: [].
\* objects counts the geometries still to be processed.
MfStart ==
    /\ ps_pc = "mf_start"
    /\ IF usable /\ objects > 0
       THEN ps_pc' = "mf_obj" /\ UNCHANGED ps_result
       ELSE ps_pc' = "done" /\ ps_result' = "[]"
    /\ UNCHANGED <<besidesPs, psArgs, needs_rotation, png, invoked, psTemp,
                   perspective_filename, rot_at, objects>>

\* Lines 727-760: the next object; its dimensions cannot be computed and it is
\* skipped (740), or its output names are derived and found on disk or not.
MfObject ==
    /\ ps_pc = "mf_obj"
    /\ objects > 0
    /\ \/ /\ objects' = objects - 1
          /\ UNCHANGED <<ps_pc, png>>
       \/ /\ ps_pc' = "mf_ortho"
          /\ png' \in MfDisks
          /\ UNCHANGED objects
    /\ UNCHANGED <<besidesPs, psArgs, needs_rotation, invoked, psTemp, perspective_filename,
                   rot_at, ps_result>>

\* Line 878: every object was handled.
MfReturn ==
    /\ ps_pc = "mf_obj"
    /\ objects = 0
    /\ ps_pc' = "done"
    /\ ps_result' = "list"
    /\ UNCHANGED <<besidesPs, psArgs, needs_rotation, png, invoked, psTemp,
                   perspective_filename, rot_at, objects>>

\* What can happen between NamedTemporaryFile and the end of a render.
MfOutcomes == {"nofile", "closefails", "exportfails", "failed", "ok"}

\* The temporary file of a stage (1 orthographic, 2 perspective, 3.. the
\* rotation variants) of the current object: NamedTemporaryFile never
\* returns a name twice.
MfTemp(stage) == 10 * objects + stage

\* One export-and-render block with its finally clause (768-794, 805-835,
\* 846-864): the temporary file exists unless NamedTemporaryFile raised, the
\* renderer is reached unless something raised before it, and
\* cleanup_temp_file runs on the way out.
MfBlock(stage, name, outcome) ==
    /\ IF outcome = "nofile"
       THEN UNCHANGED <<temps, unremovable>>
       ELSE \E ok \in Unlinks :
               /\ temps' = CleanupTempFile(MfTemp(stage), temps \cup {MfTemp(stage)}, ok)
               /\ unremovable' = UnlinkFailed(MfTemp(stage), temps \cup {MfTemp(stage)}, ok)
    /\ IF outcome \in {"failed", "ok"}
       THEN Render(name, outcome = "ok")
       ELSE UNCHANGED <<png, invoked>>

\* Lines 763-764.
MfOrthoSkip ==
    /\ ps_pc = "mf_ortho"
    /\ SkipExisting(PngOrtho, skip_existing_png)
    /\ ps_pc' = "mf_persp"
    /\ UNCHANGED <<besidesPs, psArgs, needs_rotation, png, invoked, psTemp,
                   perspective_filename, rot_at, objects, ps_result>>

\* Lines 766-794: a failed creation or render skips the object (776, 790), a
\* failed export leaves through the handler of line 880.
MfOrtho ==
    /\ ps_pc = "mf_ortho"
    /\ ~SkipExisting(PngOrtho, skip_existing_png)
    /\ \E outcome \in MfOutcomes :
          /\ MfBlock(1, PngOrtho, outcome)
          /\ ps_pc' = CASE outcome = "ok" -> "mf_persp"
                        [] outcome = "exportfails" -> "done"
                        [] OTHER -> "mf_obj"
          /\ ps_result' = IF outcome = "exportfails" THEN "[]" ELSE ps_result
          /\ objects' = IF outcome \in {"ok", "exportfails"} THEN objects ELSE objects - 1
    /\ UNCHANGED <<besidesPs, psArgs, needs_rotation, temp_stl_path, unclosed,
                   perspective_filename, rot_at>>

\* Lines 797-801.
MfPerspSkip ==
    /\ ps_pc = "mf_persp"
    /\ ~render_both \/ SkipExisting(PngPersp, skip_existing_png)
    /\ perspective_filename' = IF render_both THEN "set" ELSE "None"
    /\ ps_pc' = "mf_rot"
    /\ rot_at' = 1
    /\ UNCHANGED <<besidesPs, psArgs, needs_rotation, png, invoked, psTemp, objects, ps_result>>

\* Lines 803-835.
MfPersp ==
    /\ ps_pc = "mf_persp"
    /\ render_both /\ ~SkipExisting(PngPersp, skip_existing_png)
    /\ \E outcome \in MfOutcomes :
          /\ MfBlock(2, PngPersp, outcome)
          /\ perspective_filename' = IF outcome = "ok" THEN "set" ELSE "None"
          /\ ps_pc' = IF outcome = "exportfails" THEN "done" ELSE "mf_rot"
          /\ ps_result' = IF outcome = "exportfails" THEN "[]" ELSE ps_result
    /\ rot_at' = 1
    /\ UNCHANGED <<besidesPs, psArgs, needs_rotation, temp_stl_path, unclosed, objects>>

\* Lines 842-843.
MfRotSkip ==
    /\ ps_pc = "mf_rot"
    /\ render_both /\ perspective_filename = "set" /\ rot_at <= Len(Angles)
    /\ SkipExisting(PngRot(Angles[rot_at]), skip_existing_png)
    /\ rot_at' = rot_at + 1
    /\ UNCHANGED <<besidesPs, psArgs, needs_rotation, png, invoked, psTemp,
                   perspective_filename, objects, ps_pc, ps_result>>

\* Lines 845-864: whatever is raised is caught at 861.
MfRot ==
    /\ ps_pc = "mf_rot"
    /\ render_both /\ perspective_filename = "set" /\ rot_at <= Len(Angles)
    /\ ~SkipExisting(PngRot(Angles[rot_at]), skip_existing_png)
    /\ \E outcome \in MfOutcomes : MfBlock(2 + rot_at, PngRot(Angles[rot_at]), outcome)
    /\ rot_at' = rot_at + 1
    /\ UNCHANGED <<besidesPs, psArgs, needs_rotation, temp_stl_path, unclosed,
                   perspective_filename, objects, ps_pc, ps_result>>

\* Lines 866-876: the object's metadata is appended.
MfAppend ==
    /\ ps_pc = "mf_rot"
    /\ ~(render_both /\ perspective_filename = "set") \/ rot_at > Len(Angles)
    /\ objects' = objects - 1
    /\ ps_pc' = "mf_obj"
    /\ UNCHANGED <<besidesPs, psArgs, needs_rotation, png, invoked, psTemp,
                   perspective_filename, rot_at, ps_result>>

StlNext ==
    \/ StlStart
    \/ StlRotateSkip
    \/ StlRotate
    \/ StlRotateNoFile
    \/ StlRotateCloseFails
    \/ StlRotateExportFails
    \/ StlUserSkip
    \/ StlUserRotate
    \/ StlUserNoFile
    \/ StlOrthoSkip
    \/ StlOrtho
    \/ StlOrthoFails
    \/ StlPerspSkip
    \/ StlPersp
    \/ StlRotSkip
    \/ StlRot
    \/ StlFinish
    \/ MfStart
    \/ MfObject
    \/ MfReturn
    \/ MfOrthoSkip
    \/ MfOrtho
    \/ MfPerspSkip
    \/ MfPersp
    \/ MfRotSkip
    \/ MfRot
    \/ MfAppend

StlSpec == StlInit /\ [][StlNext]_psVars

\* ------------------------------------ properties of process_stl_file ----
\* The call is one of process_stl_file.
InStl ==
    \/ ps_pc \in {"start", "rotate", "user", "ortho", "persp", "rot"}
    \/ ps_result \in {"None", "metadata"}

\* No renderer was called for an output that existed at the call, and the
\* file is as it was.
ExistingUntouched ==
    \A name \in PngNames : png0[name] = "old" => name \notin invoked /\ png[name] = "old"

\* C21 as stated: in process_stl_file with skip_existing_png set no renderer
\* is invoked for an output that already exists and the existing image is
\* unchanged; with skip_existing_png unset the orthographic image, the
\* perspective image and every rotation variant have been rendered again
\* when the call returns its metadata.
C21_RenderedAgainAsStated ==
    InStl =>
        /\ skip_existing_png => ExistingUntouched
        /\ ~skip_existing_png /\ ps_result = "metadata" => PngNames \subseteq invoked

\* C21, amended: with skip_existing_png set no renderer is invoked for an
\* output that already exists and the existing image is unchanged; with
\* skip_existing_png unset a call that returns metadata has rendered the
\* orthographic image, with render_both also the perspective image, and the
\* rotation variants when that perspective render succeeded; without
\* render_both only the orthographic renderer is ever invoked.
C21_RenderedAgain ==
    InStl =>
        /\ skip_existing_png => ExistingUntouched
        /\ ~skip_existing_png /\ ps_result = "metadata" =>
              /\ PngOrtho \in invoked
              /\ render_both => PngPersp \in invoked
              /\ render_both /\ perspective_filename = "set" =>
                    \A k \in DOMAIN Angles : PngRot(Angles[k]) \in invoked
        /\ ~render_both => invoked \subseteq {PngOrtho}

\* A call without the flag that found all five images and rendered them all
\* again.
C21_Witness ==
    /\ InStl
    /\ ps_result = "metadata"
    /\ ~skip_existing_png
    /\ \A name \in PngNames : png0[name] = "old" /\ png[name] = "new"
    /\ invoked = PngNames

\* C29: every temporary STL file created by process_stl_file or
\* process_3mf_file has been deleted when the function returns, on every
\* path; only a file on which os.unlink raised inside cleanup_temp_file, which
\* ignores the error (82-93), may be left.
C29_TempsDeleted == ps_pc = "done" => temps \subseteq unremovable

\* process_stl_file has returned its metadata and the temporary file of the
\* automatic rotation is still there: its close raised, no unlink did.
C29_Witness ==
    /\ ps_pc = "done"
    /\ ps_result = "metadata"
    /\ PngOrtho \in invoked
    /\ temps = {1}
    /\ unclosed = {1}
    /\ unremovable = {}

\* On the other paths of both functions nothing is left: a temporary file
\* found at the return is one whose unlink raised, or the one of the automatic
\* rotation whose close raised; process_3mf_file leaves only the former.
OtherPathsClean ==
    ps_pc = "done" =>
        /\ temps \subseteq unremovable \cup unclosed
        /\ ~InStl => temps \subseteq unremovable

\* ------------------------------------------- properties of the index ----
\* C27: whenever update_library_item, generate_images.process_item or
\* generate_all_perspectives sets an item's imageUrl or perspectiveImageUrl,
\* the file it names is in the library directory at that moment: it was there
\* already or the render of that very step put it there; a step whose render
\* leaves the file missing changes no field. The index.json that
\* generate_all_perspectives writes holds the item as it is in memory, every
\* reference the write adds names a file of the library directory, and the
\* name of a failed render is never added.
C27_ReferenceExists ==
    [][/\ \A field \in Fields :
             item'[field] # item[field] =>
                 /\ item'[field] \in disk'
                 /\ item'[field] \in disk \/ item'[field] \in attempts' \ attempts
                 /\ \A name \in attempts' \ attempts : name \in disk'
       /\ index_file' # index_file =>
             /\ index_file' = item
             /\ \A field \in Fields :
                    index_file'[field] # index_file[field] =>
                        /\ index_file'[field] \in disk'
                        /\ index_file'[field] \notin attempts \ disk]_libVars

\* generate_all_perspectives has returned: perspectiveImageUrl was not set,
\* the derived image had to be rendered, the index.json written holds the
\* reference to it, and the render of a rotation variant failed.
C27_Witness ==
    /\ lib_pc = "gp_done"
    /\ item0["perspectiveImageUrl"] = ""
    /\ index_file["perspectiveImageUrl"] = PerspectiveName
    /\ PerspectiveName \in attempts
    /\ PerspectiveName \in disk
    /\ RotName(90) \in attempts \ disk
    /\ lib_result = "False"

\* ----------------------------------------------------- update_library ----
\* An item without image fields.
Blank == [field \in Fields |-> ""]

\* The items of an index.json: one without stlFile, and items of bin.stl
\* with no image field or with one of them pointing at another image.
UpdEntries ==
    {<<"", Blank>>, <<StlName, Blank>>}
        \cup {<<StlName, [Blank EXCEPT ![field] = OtherName]>> : field \in Fields}

UpdIndexes == UNION {[1 .. n -> UpdEntries] : n \in 0 .. MaxItems}

\* The library directory: any of the STL, the other image, the two derived
\* images, and none or all of the rotation variants.
UpdDisks ==
    {some \cup rots : some \in SUBSET {StlName, OtherName, OrthoName, PerspectiveName},
                      rots \in {{}, RotNames}}

Runs == {"first", "second"}

\* The two entry points of update mode: build_library.update_library and
\* generate_images.process_library.
UpdFunctions == {"update_library", "process_library"}

UpdInit ==
    /\ RenderIdle /\ ConcIdle /\ BatchIdle /\ ParseIdle /\ SliceIdle /\ CamIdle /\ PsIdle /\ CsIdle
    /\ lib_pc = "idle"
    /\ force \in BOOLEAN
    /\ item_stl = ""
    /\ item = Blank /\ item0 = Blank /\ index_file = <<>>
    /\ disk \in UpdDisks
    /\ attempts = {}
    /\ modified = FALSE
    /\ angle_at = 0
    /\ lib_result = "pending"
    /\ upd_pc = "load"
    /\ run = "first"
    /\ upd_fn \in UpdFunctions
    /\ has_index \in BOOLEAN
    /\ index \in (IF has_index THEN UpdIndexes ELSE {<<>>})
    /\ library = <<>>
    /\ upd_at = 0
    /\ index_modified = FALSE
    /\ renders = [r \in Runs |-> {}]
    /\ failed = FALSE
    /\ rewritten = {}
    /\ upd_results = <<>>

\* What the function returns for a directory without index.json:
\* update_library (build_library.py 1203-1205) returns False, process_library
\* (generate_images.py 172-173) returns the tuple 0, 0, 0, False.
NoIndex(fn) == IF fn = "process_library" THEN "(0, 0, 0, False)" ELSE "False"

\* build_library.py 1203-1217, generate_images.py 172-184: no index.json,
\* return; otherwise json.load.
UpdLoad ==
    /\ upd_pc = "load"
    /\ IF has_index
       THEN /\ library' = index
            /\ upd_at' = 1
            /\ index_modified' = FALSE
            /\ upd_pc' = "item"
            /\ UNCHANGED upd_results
       ELSE /\ upd_results' = Append(upd_results, NoIndex(upd_fn))
            /\ upd_pc' = "returned"
            /\ UNCHANGED <<library, upd_at, index_modified>>
    /\ UNCHANGED <<besidesUpdLib, libVars, run, upd_fn, has_index, index, renders, failed, rewritten>>

\* Lines 1219-1220: update_library_item is called on the next item
\* (generate_images.py 187-188: process_item, which has the same blocks).
UpdCall ==
    /\ upd_pc = "item"
    /\ upd_at <= Len(library)
    /\ lib_pc' = "start"
    /\ item_stl' = library[upd_at][1]
    /\ item' = library[upd_at][2]
    /\ item0' = library[upd_at][2]
    /\ attempts' = {}
    /\ modified' = FALSE
    /\ angle_at' = 0
    /\ lib_result' = "pending"
    /\ upd_pc' = "call"
    /\ UNCHANGED <<besidesUpdLib, force, index_file, disk, run, upd_fn, has_index, index, library, upd_at,
                   index_modified, renders, failed, rewritten, upd_results>>

\* Lines 1220-1221: the call has returned; the item was updated in place.
UpdCollect ==
    /\ upd_pc = "call"
    /\ lib_pc = "done"
    /\ library' = [library EXCEPT ![upd_at] = <<item_stl, item>>]
    /\ index_modified' = (index_modified \/ lib_result = "True")
    /\ renders' = [renders EXCEPT ![run] = @ \cup attempts]
    /\ failed' = (failed \/ attempts \ disk # {})
    /\ upd_at' = upd_at + 1
    /\ upd_pc' = "item"
    /\ lib_pc' = "idle"
    /\ UNCHANGED <<besidesUpdLib, force, item_stl, item, item0, index_file, disk, attempts, modified,
                   angle_at, lib_result, run, upd_fn, has_index, index, rewritten, upd_results>>

\* index.json rewritten whether or not an item changed.
RewritesAlways(changed) == TRUE

\* Line 1223: if index_modified.
Rewrites(changed) == changed

\* Lines 1223-1229: index.json is rewritten if an item changed, and
\* index_modified returned.
UpdReturn ==
    /\ upd_pc = "item"
    /\ upd_at > Len(library)
    /\ IF Rewrites(index_modified)
       THEN index' = library /\ rewritten' = rewritten \cup {run}
       ELSE UNCHANGED <<index, rewritten>>
    /\ upd_results' = Append(upd_results, PyBool(index_modified))
    /\ upd_pc' = "returned"
    /\ UNCHANGED <<besidesUpdLib, libVars, run, upd_fn, has_index, library, upd_at, index_modified,
                   renders, failed>>

\* The function is called again on the same directory with the same force.
UpdAgain ==
    /\ upd_pc = "returned"
    /\ run = "first"
    /\ run' = "second"
    /\ upd_pc' = "load"
    /\ UNCHANGED <<besidesUpdLib, libVars, upd_fn, has_index, index, library, upd_at, index_modified,
                   renders, failed, rewritten, upd_results>>

UpdNext ==
    \/ UpdLoad
    \/ UpdCall
    \/ LibStart
    \/ LibKeep
    \/ LibRender
    \/ LibRenderFails
    \/ LibRotKeep
    \/ LibRotRender
    \/ UpdCollect
    \/ UpdReturn
    \/ UpdAgain

UpdSpec == UpdInit /\ [][UpdNext]_<<libVars, updVars>>

\* C28: after update_library(dir, force=False) has run with every render
\* succeeding, a second run with force=False calls no renderer, changes no
\* field of any item, returns False and does not rewrite index.json.  The
\* same holds of generate_images.process_library on a directory with
\* index.json; on one without it returns the tuple 0, 0, 0, False every time.
C28_SecondRunIdle ==
    run = "second" /\ ~force /\ ~failed =>
        /\ renders["second"] = {}
        /\ upd_pc = "call" => attempts = {} /\ item = item0
        /\ upd_pc # "load" /\ has_index => library = index /\ ~index_modified
        /\ "second" \notin rewritten
        /\ (upd_pc = "returned" /\ (upd_fn = "update_library" \/ has_index)) =>
               upd_results[2] = "False"
        /\ (upd_pc = "returned" /\ upd_fn = "process_library" /\ ~has_index) =>
               upd_results = <<"(0, 0, 0, False)", "(0, 0, 0, False)">>

\* The first run rendered images, changed both items and rewrote index.json;
\* the second run has returned.
C28_Witness ==
    /\ upd_fn = "update_library"
    /\ run = "second"
    /\ upd_pc = "returned"
    /\ ~force /\ ~failed
    /\ Len(index) = MaxItems
    /\ \A k \in DOMAIN index : index[k][2]["imageUrl"] = OrthoName
    /\ renders["first"] = DerivedNames
    /\ rewritten = {"first"}
    /\ upd_results = <<"True", "False">>

\* ------------------------------------------- concurrent slice_model ----
Calls == {"a", "b"}

\* Values uuid.uuid4() can return.
Uuids == {"u1", "u2", "u3"}

\* uuid4 returning one and the same value every time.
Uuid4Fixed(taken) == {"u1"}

\* uuid.uuid4() (line 66): 122 random bits, a value that was drawn before
\* does not come again.
Uuid4(taken) == Uuids \ taken

CsInit ==
    /\ RenderIdle /\ ConcIdle /\ BatchIdle /\ ParseIdle /\ SliceIdle /\ LibIdle /\ CamIdle /\ PsIdle /\ UpdIdle
    /\ cs_pc = [c \in Calls |-> "checks"]
    /\ cs_name = [c \in Calls |-> ""]
    /\ cs_files = [u \in Uuids |-> "absent"]
    /\ cs_writes = [c \in Calls |-> {}]
    /\ cs_reads = [c \in Calls |-> {}]
    /\ cs_unlinks = [c \in Calls |-> {}]
    /\ cs_content = [c \in Calls |-> ""]
    /\ cs_result = [c \in Calls |-> "pending"]

\* Lines 53-63: config, STL and binary are there, or the call returns None.
CsChecks(c) ==
    /\ cs_pc[c] = "checks"
    /\ \E found \in BOOLEAN :
          /\ cs_pc' = [cs_pc EXCEPT ![c] = IF found THEN "name" ELSE "done"]
          /\ cs_result' = [cs_result EXCEPT ![c] = IF found THEN @ ELSE "None"]
    /\ UNCHANGED <<besidesCs, cs_name, cs_files, cs_writes, cs_reads, cs_unlinks, cs_content>>

\* Lines 65-66: TEMP_DIR is made if missing and the path is chosen.
CsName(c) ==
    /\ cs_pc[c] = "name"
    /\ \E u \in Uuid4({cs_name[d] : d \in Calls}) :
          cs_name' = [cs_name EXCEPT ![c] = u]
    /\ cs_pc' = [cs_pc EXCEPT ![c] = "run"]
    /\ UNCHANGED <<besidesCs, cs_files, cs_writes, cs_reads, cs_unlinks, cs_content, cs_result>>

\* Lines 69-74 and 116-118: subprocess.run starts OrcaSlicer with
\* -o temp_gcode and begins to wait for it; when the binary cannot be started
\* the call goes to the handler and returns None.
CsRun(c) ==
    /\ cs_pc[c] = "run"
    /\ \E started \in BOOLEAN :
          /\ cs_pc' = [cs_pc EXCEPT ![c] = IF started THEN "wait" ELSE "finally"]
          /\ cs_result' = [cs_result EXCEPT ![c] = IF started THEN @ ELSE "None"]
    /\ UNCHANGED <<besidesCs, cs_name, cs_files, cs_writes, cs_reads, cs_unlinks, cs_content>>

\* The OrcaSlicer process of the call writes its output file while the call
\* waits inside subprocess.run.
CsChild(c) ==
    /\ cs_pc[c] = "wait"
    /\ cs_name[c] \notin cs_writes[c]
    /\ cs_files' = [cs_files EXCEPT ![cs_name[c]] = c]
    /\ cs_writes' = [cs_writes EXCEPT ![c] = @ \cup {cs_name[c]}]
    /\ UNCHANGED <<besidesCs, cs_pc, cs_name, cs_reads, cs_unlinks, cs_content, cs_result>>

\* Lines 69-78 and 113-115: subprocess.run returns when OrcaSlicer has exited,
\* with return code 0 or another, or kills it at SLICE_TIMEOUT and raises
\* TimeoutExpired; only then is the return code tested.
CsWait(c) ==
    /\ cs_pc[c] = "wait"
    /\ \E outcome \in {"ok", "failed", "timeout"} :
          /\ cs_pc' = [cs_pc EXCEPT ![c] = IF outcome = "ok" THEN "read" ELSE "finally"]
          /\ cs_result' = [cs_result EXCEPT ![c] = IF outcome = "ok" THEN @ ELSE "None"]
    /\ UNCHANGED <<besidesCs, cs_name, cs_files, cs_writes, cs_reads, cs_unlinks, cs_content>>

\* Lines 83-111 and 116-118: temp_gcode is opened and scanned; a missing file
\* raises and the call returns None, a scanned one gives the dict or None.
CsRead(c) ==
    /\ cs_pc[c] = "read"
    /\ cs_reads' = [cs_reads EXCEPT ![c] = @ \cup {cs_name[c]}]
    /\ cs_content' = [cs_content EXCEPT ![c] =
                         IF cs_files[cs_name[c]] = "absent" THEN @ ELSE cs_files[cs_name[c]]]
    /\ \E parsed_all \in BOOLEAN :
          cs_result' = [cs_result EXCEPT ![c] =
                           IF cs_files[cs_name[c]] # "absent" /\ parsed_all
                           THEN "dict" ELSE "None"]
    /\ cs_pc' = [cs_pc EXCEPT ![c] = "finally"]
    /\ UNCHANGED <<besidesCs, cs_name, cs_files, cs_writes, cs_unlinks>>

\* Lines 119-124: temp_gcode is unlinked if it exists; a failure is ignored.
CsFinally(c) ==
    /\ cs_pc[c] = "finally"
    /\ IF cs_files[cs_name[c]] = "absent"
       THEN UNCHANGED <<cs_files, cs_unlinks>>
       ELSE /\ cs_unlinks' = [cs_unlinks EXCEPT ![c] = @ \cup {cs_name[c]}]
            /\ \E ok \in BOOLEAN :
                  cs_files' = IF ok THEN [cs_files EXCEPT ![cs_name[c]] = "absent"]
                              ELSE cs_files
    /\ cs_pc' = [cs_pc EXCEPT ![c] = "done"]
    /\ UNCHANGED <<besidesCs, cs_name, cs_writes, cs_reads, cs_content, cs_result>>

CsNext ==
    \/ \E c \in Calls : CsChecks(c)
    \/ \E c \in Calls : CsName(c)
    \/ \E c \in Calls : CsRun(c)
    \/ \E c \in Calls : CsChild(c)
    \/ \E c \in Calls : CsWait(c)
    \/ \E c \in Calls : CsRead(c)
    \/ \E c \in Calls : CsFinally(c)

CsSpec == CsInit /\ [][CsNext]_csVars

\* The files a call has written, opened or unlinked.
CsTouched(c) == cs_writes[c] \cup cs_reads[c] \cup cs_unlinks[c]

\* C30: in no interleaving of two concurrent slice_model calls does one call
\* read, overwrite or delete the other's temporary gcode file: the two calls
\* have different file names, each call writes, opens and unlinks only its
\* own file, what it reads was written by its own OrcaSlicer, and the file
\* its OrcaSlicer wrote is still there, unchanged, when the call opens it.
C30_OwnFileOnly ==
    \A c \in Calls :
        /\ CsTouched(c) \subseteq {cs_name[c]} \ {""}
        /\ \A d \in Calls \ {c} : cs_name[c] # "" => cs_name[d] # cs_name[c]
        /\ cs_content[c] \in {"", c}
        /\ cs_pc[c] \in {"wait", "read"} /\ cs_writes[c] # {} => cs_files[cs_name[c]] = c
        /\ \A d \in Calls \ {c} : cs_name[c] # "" => cs_name[c] \notin CsTouched(d)

\* Call b wrote and read its file and removed it while call a was still
\* inside subprocess.run, its OrcaSlicer having written a's file, which is
\* still there.
C30_Witness ==
    /\ cs_pc["a"] = "wait" /\ cs_writes["a"] = {cs_name["a"]}
    /\ cs_files[cs_name["a"]] = "a"
    /\ cs_pc["b"] = "done" /\ cs_result["b"] = "dict"
    /\ cs_unlinks["b"] = {cs_name["b"]}
    /\ cs_files[cs_name["b"]] = "absent"

====
